---- MODULE Spec2Model ----
(***************************************************************************)
(* A model of the AgentID Python SDK (src/sdks/python/agentid): the        *)
(* expiring cache, the server-side CredentialVerifier, the client-side     *)
(* AgentCredential handle and the RevocationSubscriber, all sharing one    *)
(* CredentialCache.                                                        *)
(*                                                                         *)
(* Time is counted in units of 300 s, so the SDK's 300 s defaults are 1    *)
(* and the 3600 s cap of the credential cache entry is 12.                 *)
(***************************************************************************)
EXTENDS Integers, Sequences, FiniteSets, TLC

VARIABLES
    now,        \* time.time(), in units of 300 s
    cache,      \* CredentialCache._cache: key -> CacheEntry, shared by reference
    hist,       \* ghost: per key, the latest set() not undone by delete()/clear()
    last,       \* the operation performed last, its arguments and its outcome
    handles,    \* AgentCredential objects by name: _credential_data and _status
    reported,   \* ghost: per handle, the bad state its last remote fetch reported
    revoked,    \* RevocationSubscriber._revoked_credentials
    consumed,   \* ghost: the credential ids of the RevocationEvents handled so far
    cbLog,      \* ghost: what on_revocation saw at each invocation of the last operation
    subState,   \* RevocationSubscriber._state
    lastCheck,  \* RevocationSubscriber._last_revocation_check
    sources,    \* ghost: the revocation sources running for the subscriber
    answers,    \* ghost: the valid answers the authority gave to verify_credential
    conn,       \* RevocationSubscriber: _stop_event, reconnect fields, _poll_task
    calls       \* the calls in progress of concurrent callers, and the locks held

vars == <<now, cache, hist, last, handles, reported, revoked, consumed, cbLog,
          subState, lastCheck, sources, answers, conn, calls>>

-----------------------------------------------------------------------------
(* Bounds of the model and constants of the program *)

MaxTime == 3            \* the clock runs from 0 to MaxTime
MaxTTL == 2             \* explicit ttl arguments of set() range over 0..MaxTTL
DefaultTTL == 1         \* CredentialCache(default_ttl=300.0)
CacheTTL == 2           \* CredentialVerifier(cache_ttl=...), in time units
SignatureMaxAge == 1    \* CredentialVerifier(signature_max_age=300)

None == [none |-> TRUE]                 \* Python's None

Ids == {"cred_X", "cred_Y"}             \* credential ids in use
EventIds == Ids \cup {""}               \* "" is the default of a push message without id

Key(prefix, id) == <<prefix, id>>       \* f"{prefix}:{id}"
Prefixes == {"verify", "credential", "cred"}
Keys == {Key(p, i) : p \in Prefixes, i \in EventIds}

-----------------------------------------------------------------------------
(* cache.py: CacheEntry and CredentialCache *)

\* CacheEntry(value, expires_at); created_at is never read
CacheEntry(value, expires_at) == [value |-> value, expires_at |-> expires_at]

\* CacheEntry.is_expired, with `>` for `>=`: an entry lives one instant too long
IsExpiredLate(entry, t) == t > entry.expires_at

\* CacheEntry.is_expired
IsExpired(entry, t) == t >= entry.expires_at

\* CredentialCache.get: the value returned
CacheGetValue(c, k, t) ==
    IF k \notin DOMAIN c THEN None
    ELSE IF IsExpired(c[k], t) THEN None
    ELSE c[k].value

\* CredentialCache.delete: the store afterwards
CacheDelete(c, k) == [x \in DOMAIN c \ {k} |-> c[x]]

\* CredentialCache.get: the store afterwards (an expired entry met is deleted)
CacheAfterGet(c, k, t) ==
    IF k \in DOMAIN c /\ IsExpired(c[k], t) THEN CacheDelete(c, k) ELSE c

\* CredentialCache.set: the ttl argument is [ttl |-> n], or None when omitted
EffectiveTTL(a) == IF a = None THEN DefaultTTL ELSE a.ttl

CacheSet(c, k, value, a, t) ==
    LET e == CacheEntry(value, t + EffectiveTTL(a))
    IN [x \in DOMAIN c \cup {k} |-> IF x = k THEN e ELSE c[x]]

\* CredentialCache.clear
CacheClear(c) == [x \in {} |-> None]

\* CredentialCache.cleanup_expired: the store afterwards and the count returned
ExpiredKeys(c, t) == {k \in DOMAIN c : IsExpired(c[k], t)}
CacheCleanup(c, t) == [x \in DOMAIN c \ ExpiredKeys(c, t) |-> c[x]]

\* CredentialCache.size
CacheSize(c) == Cardinality(DOMAIN c)

\* CredentialCache.get_ttl: CacheEntry.time_to_live of a live entry
CacheGetTTL(c, k, t) ==
    IF k \notin DOMAIN c \/ IsExpired(c[k], t) THEN None
    ELSE [ttl |-> IF c[k].expires_at - t > 0 THEN c[k].expires_at - t ELSE 0]

-----------------------------------------------------------------------------
(* A client of the cache API: the generic operations on the shared cache *)

ClientKeys == {Key("verify", "cred_X"), Key("cred", "cred_X")}
ClientValues == {[tag |-> "v1"], [tag |-> "v2"]}
TTLArgs == {[ttl |-> n] : n \in 0..MaxTTL} \cup {None}

\* ghost: the latest instant at which the authority gave each valid answer;
\* answers older than cache_ttl are forgotten as time passes
RecentAnswers(a, t) == {x \in a : t - x.at <= CacheTTL}

NoSet == [set |-> FALSE]
HistSet(h, k, value, a, t) ==
    [h EXCEPT ![k] = [set |-> TRUE, value |-> value, at |-> t,
                      ttl |-> IF a = None THEN DefaultTTL ELSE a.ttl]]

NoOp == [op |-> "none"]

Watch == <<revoked, consumed, cbLog, subState, lastCheck, sources, conn>>
Others == <<handles, reported, Watch, answers, calls>>

ClientSet(k, v, a) ==
    /\ cache' = CacheSet(cache, k, v, a, now)
    /\ hist' = HistSet(hist, k, v, a, now)
    /\ last' = [op |-> "set", key |-> k]
    /\ UNCHANGED <<now, Others>>

ClientGet(k) ==
    /\ cache' = CacheAfterGet(cache, k, now)
    /\ last' = [op |-> "get", key |-> k, ret |-> CacheGetValue(cache, k, now),
                held |-> k \in DOMAIN cache]
    /\ UNCHANGED <<now, hist, Others>>

ClientDelete(k) ==
    /\ cache' = CacheDelete(cache, k)
    /\ hist' = [hist EXCEPT ![k] = NoSet]
    /\ last' = [op |-> "delete", key |-> k, ret |-> k \in DOMAIN cache]
    /\ UNCHANGED <<now, Others>>

ClientClear ==
    /\ cache' = CacheClear(cache)
    /\ hist' = [k \in Keys |-> NoSet]
    /\ last' = [op |-> "clear"]
    /\ UNCHANGED <<now, Others>>

ClientCleanup ==
    /\ cache' = CacheCleanup(cache, now)
    /\ last' = [op |-> "cleanup_expired", ret |-> Cardinality(ExpiredKeys(cache, now)),
                before |-> CacheSize(cache)]
    /\ UNCHANGED <<now, hist, Others>>

\* no call is in progress, no lock is held
NoCalls == [lock |-> None]

\* time passes
Tick ==
    /\ now < MaxTime
    /\ now' = now + 1
    /\ last' = [op |-> "tick"]
    /\ answers' = RecentAnswers(answers, now + 1)
    /\ UNCHANGED <<cache, hist, handles, reported, Watch, calls>>

-----------------------------------------------------------------------------
(* The remote authority: what one POST .../verify for credential `id` can bring *)

Names == {"agent_a", "agent_b"}
ValidUntils == {2, MaxTime + 2}

\* CredentialPayload, reduced to the fields the SDK reads
Payloads(id) ==
    {[credential_id |-> id, agent_name |-> n, valid_until |-> u] :
        n \in Names, u \in ValidUntils}

ErrorCodes == {"NONE", "CREDENTIAL_NOT_FOUND", "CREDENTIAL_EXPIRED",
               "CREDENTIAL_REVOKED", "POLICY_DENIED"}

\* response bodies: not JSON at all, JSON that is no object, or a JSON object
\* whose "valid" is true, false or missing ("NONE" is an absent error_code)
ObjectBody(valid, code, cred) ==
    [kind |-> "object", valid |-> valid, error_code |-> code, credential |-> cred]
NotJson == [kind |-> "notjson"]
NonObject == [kind |-> "nonobject"]

BodiesOf(payloads) ==
    {NotJson, NonObject, ObjectBody("missing", "NONE", None), ObjectBody("true", "NONE", None)}
    \cup {ObjectBody("true", "NONE", p) : p \in payloads}
    \cup {ObjectBody("false", c, None) : c \in ErrorCodes}

Statuses == {200, 401, 404, 429, 500}
RetryAfters == {"absent", "7", "Wed, 21 Oct 2015 07:28:00 GMT"}

TransportError == [transport |-> "error"]
Response(status, retry_after, body) ==
    [transport |-> "ok", status |-> status, retry_after |-> retry_after, body |-> body]

ResponsesOf(payloads) ==
    {TransportError}
    \cup {Response(st, "absent", b) : st \in Statuses, b \in BodiesOf(payloads)}
    \cup {Response(429, ra, NotJson) : ra \in RetryAfters}

\* httpx.Response.is_success
IsSuccess(status) == status >= 200 /\ status < 300

Return(value) == [kind |-> "return", value |-> value]
Raise(exc) == [kind |-> "raise", exc |-> exc]

\* the 429 branch of both response handlers: int(retry_after) of a Retry-After
\* header that is an HTTP date raises ValueError
RateLimited(retry_after) ==
    IF retry_after = "absent" THEN Raise("RateLimitError")
    ELSE IF retry_after = "7" THEN Raise("RateLimitError")
    ELSE Raise("ValueError")

-----------------------------------------------------------------------------
(* types.py: VerificationResult *)

VerificationResult(valid, cred, code) ==
    [valid |-> valid, credential |-> cred, error_code |-> code]

\* VerificationResult(**data) on a parsed JSON body
ParseVerificationResult(body) ==
    IF body.kind = "nonobject" THEN Raise("TypeError")
    ELSE IF body.valid = "missing" THEN Raise("ValidationError")
    ELSE Return(VerificationResult(body.valid = "true", body.credential, body.error_code))

\* result.model_dump() and VerificationResult(**cached)
ModelDump(result) == [dict |-> result]
FromDump(d) == d.dict

-----------------------------------------------------------------------------
(* verifier.py: CredentialVerifier *)

\* _handle_response treating 401 and 404 the way AgentCredential does: raising
HandleResponseRaising(resp) ==
    IF resp.status = 429 THEN RateLimited(resp.retry_after)
    ELSE IF resp.status = 401 THEN Raise("AuthenticationError")
    ELSE IF resp.body.kind = "notjson" THEN Raise("AgentIDError")
    ELSE IF resp.status = 404 THEN Raise("CredentialNotFoundError")
    ELSE ParseVerificationResult(resp.body)

\* CredentialVerifier._handle_response
HandleResponse(resp) ==
    IF resp.status = 429 THEN RateLimited(resp.retry_after)
    ELSE IF resp.body.kind = "notjson" THEN Raise("AgentIDError")
    ELSE ParseVerificationResult(resp.body)

\* verify_credential caching every result, not only the valid ones
ShouldCacheAlways(use_cache, result) == use_cache

\* verify_credential: `if use_cache and result.valid`
ShouldCache(use_cache, result) == use_cache /\ result.valid

\* verify_credential ignoring the cache
CacheHitNever(use_cache, cached) == FALSE

\* verify_credential: `if use_cache: ... if cached:`
CacheHit(use_cache, cached) == use_cache /\ cached # None

\* CredentialVerifier.verify_credential: the outcome, the number of remote
\* calls and the cache afterwards, for the response the authority would give
VerifyCredential(c, id, use_cache, resp, t) ==
    LET key == Key("verify", id)
        cached == IF use_cache THEN CacheGetValue(c, key, t) ELSE None
        c1 == IF use_cache THEN CacheAfterGet(c, key, t) ELSE c
    IN  IF CacheHit(use_cache, cached)
        THEN [out |-> Return(FromDump(cached)), remote |-> 0, cache |-> c1]
        ELSE IF resp.transport = "error"
        THEN [out |-> Raise("NetworkError"), remote |-> 1, cache |-> c1]
        ELSE LET h == HandleResponse(resp)
             IN  IF h.kind = "raise"
                 THEN [out |-> h, remote |-> 1, cache |-> c1]
                 ELSE [out |-> h, remote |-> 1,
                       cache |-> IF ShouldCache(use_cache, h.value)
                                 THEN CacheSet(c1, key, ModelDump(h.value),
                                               [ttl |-> CacheTTL], t)
                                 ELSE c1]

-----------------------------------------------------------------------------
(* signature.py *)

\* str.upper() on the methods in use
Upper(m) == IF m = "get" THEN "GET" ELSE IF m = "post" THEN "POST" ELSE m

\* str(n) and f"{n}" for the integers in use
Digits == <<"0", "1", "2", "3", "4", "5", "6", "7", "8", "9">>
Decimal == [n \in -9..9 |-> IF n < 0 THEN "-" \o Digits[1 - n] ELSE Digits[n + 1]]
Str(n) == Decimal[n]
Numerals == {Decimal[n] : n \in -9..9}

\* hashlib.sha256(...).hexdigest() and base64 of a digest, as injective encodings
Sha256Hex(data) == "sha256(" \o data \o ")"
\* hmac.new pads a key shorter than the block size with zero bytes, so a key
\* and the same key followed by NUL bytes are one key; for the secrets in use
HmacKey(secret) == IF secret = "k1<NUL>" THEN "k1" ELSE secret
HmacSha256(secret, data) == "hmac(" \o HmacKey(secret) \o "," \o data \o ")"
B64(digest) == "b64:" \o digest

\* a body and a secret are None or [data |-> string]; `if body:` is false for both
\* None and the empty string
Truthy(x) == x # None /\ x.data # ""

\* generate_request_signature leaving the credential id out of what it signs
GenerateRequestSignatureUnbound(method, url, body, timestamp, credential_id, secret) ==
    LET body_hash == IF Truthy(body) THEN Sha256Hex(body.data) ELSE ""
        signing_string == Upper(method) \o "\n" \o url \o "\n" \o Str(timestamp)
                            \o "\n" \o body_hash
    IN  IF Truthy(secret)
        THEN B64(HmacSha256(secret.data, signing_string))
        ELSE B64(Sha256Hex(signing_string))

\* generate_request_signature
GenerateRequestSignature(method, url, body, timestamp, credential_id, secret) ==
    LET body_hash == IF Truthy(body) THEN Sha256Hex(body.data) ELSE ""
        signing_string == Upper(method) \o "\n" \o url \o "\n" \o Str(timestamp)
                            \o "\n" \o credential_id \o "\n" \o body_hash
    IN  IF Truthy(secret)
        THEN B64(HmacSha256(secret.data, signing_string))
        ELSE B64(Sha256Hex(signing_string))

-----------------------------------------------------------------------------
(* verifier.py: verify_request *)

\* the decimal numeral of 10^400, written out: an int that no float can hold
HugeNumeral == "1000...000 (401 digits)"

\* int(timestamp): ValueError unless the string is a numeral
NumeralValue == [str \in Numerals |-> CHOOSE n \in -9..9 : Decimal[n] = str]
ParseInt(str) ==
    IF str = HugeNumeral THEN [err |-> FALSE, huge |-> TRUE, val |-> 0]
    ELSE IF str \in Numerals
    THEN [err |-> FALSE, huge |-> FALSE, val |-> NumeralValue[str]]
    ELSE [err |-> TRUE, huge |-> FALSE, val |-> 0]

Abs(n) == IF n < 0 THEN -n ELSE n

\* header names as sent, and str.lower() on them
HeaderNames == {"X-AgentID-Credential", "X-AgentID-Timestamp",
                "X-AgentID-Nonce", "X-AgentID-Signature"}
Lower(name) ==
    CASE name = "X-AgentID-Credential" -> "x-agentid-credential"
      [] name = "X-AgentID-Timestamp" -> "x-agentid-timestamp"
      [] name = "X-AgentID-Nonce" -> "x-agentid-nonce"
      [] name = "X-AgentID-Signature" -> "x-agentid-signature"
      [] OTHER -> name

\* dict.get on the normalized headers: None when absent
HeaderGet(headers, lname) ==
    IF \E k \in DOMAIN headers : Lower(k) = lname
    THEN [data |-> headers[CHOOSE k \in DOMAIN headers : Lower(k) = lname]]
    ELSE None

\* CredentialVerifier._extract_credential_info
ExtractCredentialInfo(headers) ==
    [credential_id |-> HeaderGet(headers, "x-agentid-credential"),
     timestamp |-> HeaderGet(headers, "x-agentid-timestamp"),
     nonce |-> HeaderGet(headers, "x-agentid-nonce"),
     signature |-> HeaderGet(headers, "x-agentid-signature")]

Rejected(code) == Return(VerificationResult(FALSE, None, code))

\* the local checks of verify_request: the rejection, the exception that
\* escapes, or None when the request goes on to verify_credential
LocalChecks(info, verify_signature, t) ==
    IF ~Truthy(info.credential_id) THEN Rejected("MISSING_CREDENTIAL")
    ELSE IF ~verify_signature THEN None
    ELSE IF ~Truthy(info.timestamp) \/ ~Truthy(info.signature)
    THEN Rejected("MISSING_SIGNATURE")
    ELSE LET ts == ParseInt(info.timestamp.data)
         IN  IF ts.err THEN Rejected("INVALID_TIMESTAMP")
             ELSE IF ts.huge THEN Raise("OverflowError")    \* time.time() - ts
             ELSE IF Abs(t - ts.val) > SignatureMaxAge THEN Rejected("SIGNATURE_EXPIRED")
             ELSE None

\* CredentialVerifier.verify_request
VerifyRequest(c, headers, method, url, body, verify_signature, resp, t) ==
    LET info == ExtractCredentialInfo(headers)
        local == LocalChecks(info, verify_signature, t)
    IN  IF local # None
        THEN [out |-> local, remote |-> 0, cache |-> c, resolved |-> FALSE]
        ELSE LET r == VerifyCredential(c, info.credential_id.data, TRUE, resp, t)
             IN  [out |-> r.out, remote |-> r.remote, cache |-> r.cache,
                  resolved |-> TRUE]

\* ghost: note the valid answer of a remote call
NoteAnswer(a, id, r, t) ==
    IF r.remote = 1 /\ r.out.kind = "return" /\ r.out.value.valid
    THEN {x \in a : ~(x.id = id /\ x.result = r.out.value)}
            \cup {[id |-> id, result |-> r.out.value, at |-> t]}
    ELSE a

VerifierOthers == <<hist, handles, reported, Watch, calls>>

VerifyCredentialCall(id, use_cache, resp) ==
    \E r \in {VerifyCredential(cache, id, use_cache, resp, now)} :
        /\ cache' = r.cache
        /\ answers' = NoteAnswer(answers, id, r, now)
        /\ last' = [op |-> "verify_credential", id |-> id, use_cache |-> use_cache,
                    out |-> r.out, remote |-> r.remote,
                    resp |-> IF r.remote = 1 THEN resp ELSE None,
                    held |-> CacheGetValue(cache, Key("verify", id), now)]
        /\ UNCHANGED <<now, VerifierOthers>>

VerifyRequestCall(headers, method, url, body, verify_signature, resp) ==
    \E r \in {VerifyRequest(cache, headers, method, url, body, verify_signature, resp, now)} :
        /\ cache' = r.cache
        /\ answers' = IF r.resolved
                      THEN NoteAnswer(answers, HeaderGet(headers, "x-agentid-credential").data,
                                      r, now)
                      ELSE answers
        /\ last' = [op |-> "verify_request", headers |-> headers, method |-> method,
                    url |-> url, body |-> body, verify_signature |-> verify_signature,
                    out |-> r.out, remote |-> r.remote, resolved |-> r.resolved,
                    resp |-> IF r.remote = 1 THEN resp ELSE None,
                    cacheChanged |-> r.cache # cache,
                    id |-> HeaderGet(headers, "x-agentid-credential"),
                    held |-> IF r.resolved
                             THEN CacheGetValue(cache,
                                    Key("verify", HeaderGet(headers, "x-agentid-credential").data),
                                    now)
                             ELSE None]
        /\ UNCHANGED <<now, VerifierOthers>>

(* The requests a service receives *)

Secrets == {None, [data |-> "k1"]}

CredentialHeaders == {None, [data |-> ""], [data |-> "cred_X"]}
TimestampHeaders(t) ==
    {None, [data |-> ""], [data |-> "soon"], [data |-> HugeNumeral]}
    \cup {[data |-> Str(n)] : n \in (t - SignatureMaxAge - 1)..(t + SignatureMaxAge + 1)}
\* the header dict of a request, in the casing RequestSigner sends or in lower case
HeaderDict(cred, ts, sig, lower) ==
    LET present == {n \in HeaderNames :
                       \/ n = "X-AgentID-Credential" /\ cred # None
                       \/ n = "X-AgentID-Timestamp" /\ ts # None
                       \/ n = "X-AgentID-Nonce" /\ sig # None
                       \/ n = "X-AgentID-Signature" /\ sig # None}
        value(n) == IF n = "X-AgentID-Credential" THEN cred.data
                    ELSE IF n = "X-AgentID-Timestamp" THEN ts.data
                    ELSE IF n = "X-AgentID-Nonce" THEN "nonce"
                    ELSE sig.data
    IN  IF lower THEN [k \in {Lower(n) : n \in present} |->
                          value(CHOOSE n \in present : Lower(n) = k)]
        ELSE [k \in present |-> value(k)]

\* headers as RequestSigner.sign_request builds them at time t
SignedHeaders(id, method, url, body, secret, t) ==
    HeaderDict([data |-> id], [data |-> Str(t)],
               [data |-> GenerateRequestSignature(method, url, body, t, id, secret)],
               FALSE)

\* the requests tried: a body-less GET with lower-case header names and a POST
\* with a body and the header names as RequestSigner writes them
RequestShapes ==
    {[method |-> "GET", url |-> "https://svc/a", body |-> None, lower |-> TRUE],
     [method |-> "post", url |-> "https://svc/a", body |-> [data |-> "{}"], lower |-> FALSE]}

\* the signatures of those requests, computed once
SignatureOf ==
    [q \in RequestShapes, n \in -9..9, id \in {"", "cred_X"}, s \in Secrets |->
        GenerateRequestSignature(q.method, q.url, q.body, n, id, s)]

-----------------------------------------------------------------------------
SignatureHeaders(q, ts, cred) ==
    {None, [data |-> ""], [data |-> "bogus=="]}
    \cup IF ts # None /\ cred # None /\ ts.data \in Numerals
         THEN {[data |-> SignatureOf[q, NumeralValue[ts.data], cred.data, None]]}
         ELSE {}

-----------------------------------------------------------------------------
(* credential.py: AgentCredential *)

Handles == {"h1", "h2"}                 \* two AgentCredential objects on one cache
CredentialOf(h) == "cred_X"             \* both constructed for the same credential

RefreshThreshold == 2   \* AgentCredential(refresh_threshold=...), in time units
CredCacheCap == 12      \* `min(self.time_to_expiry, 3600)`

\* the fields __init__ sets; _last_fetch and _reputation_data are written but
\* never read anywhere in the SDK and are left out
NewHandle == [credential_data |-> None, status |-> "unset"]

\* AgentCredential.cache_key
CacheKey(id) == Key("credential", id)

\* AgentCredential.is_loaded
IsLoaded(hd) == hd.credential_data # None

\* AgentCredential.is_expired (the property of the handle)
HandleIsExpired(hd, t) ==
    IF hd.credential_data = None THEN TRUE ELSE t >= hd.credential_data.valid_until

\* AgentCredential.is_active
IsActive(hd, t) == hd.status = "active" /\ ~HandleIsExpired(hd, t)

\* AgentCredential.time_to_expiry
TimeToExpiry(hd, t) ==
    IF hd.credential_data = None THEN 0
    ELSE IF hd.credential_data.valid_until - t > 0
         THEN hd.credential_data.valid_until - t ELSE 0

\* AgentCredential.needs_refresh
NeedsRefresh(hd, t) == TimeToExpiry(hd, t) < RefreshThreshold

RaiseDetails(exc, code) == [kind |-> "raise", exc |-> exc, error_code |-> code]

\* AgentCredential._handle_verify_response
HandleVerifyResponse(resp) ==
    IF resp.status = 429 THEN RateLimited(resp.retry_after)
    ELSE IF resp.status = 401 THEN Raise("AuthenticationError")
    ELSE IF resp.body.kind = "notjson" THEN Raise("AgentIDError")
    ELSE IF resp.status = 404 THEN Raise("CredentialNotFoundError")
    ELSE IF resp.body.kind = "nonobject" THEN Raise("AttributeError")
    ELSE IF resp.body.error_code = "CREDENTIAL_NOT_FOUND" THEN Raise("CredentialNotFoundError")
    ELSE IF ~IsSuccess(resp.status) THEN RaiseDetails("AgentIDError", resp.body.error_code)
    ELSE ParseVerificationResult(resp.body)

\* min() forgetting the cap
MinIgnoringCap(a, b) == a

Min(a, b) == IF a < b THEN a ELSE b

\* AgentCredential._update_from_result: the exception raised (if any), the
\* handle and the cache afterwards
UpdateFromResult(hd, c, id, result, t) ==
    IF ~result.valid
    THEN IF result.error_code = "CREDENTIAL_EXPIRED"
         THEN [raised |-> Raise("CredentialExpiredError"),
               handle |-> [hd EXCEPT !.status = "expired"], cache |-> c]
         ELSE IF result.error_code = "CREDENTIAL_REVOKED"
         THEN [raised |-> Raise("CredentialRevokedError"),
               handle |-> [hd EXCEPT !.status = "revoked"], cache |-> c]
         ELSE [raised |-> Raise("CredentialInvalidError"), handle |-> hd, cache |-> c]
    ELSE LET h1 == [credential_data |-> result.credential, status |-> "active"]
         IN  [raised |-> None, handle |-> h1,
              cache |-> IF h1.credential_data # None
                        THEN CacheSet(c, CacheKey(id), ModelDump(h1.credential_data),
                                      [ttl |-> Min(TimeToExpiry(h1, t), CredCacheCap)], t)
                        ELSE c]

\* load() returning whatever the cache holds, however close to its expiry
ServedFromCacheAlways(hd, cached, t) == cached # None

\* load(): `if cached: ... if not self.needs_refresh: return`
ServedFromCache(hd, cached, t) ==
    /\ cached # None
    /\ ~NeedsRefresh([hd EXCEPT !.credential_data = FromDump(cached)], t)

\* AgentCredential.load: the outcome, the number of remote calls, the handle
\* and the cache afterwards, for the response the authority would give
Load(c, hd, id, force, resp, t) ==
    LET cached == IF force THEN None ELSE CacheGetValue(c, CacheKey(id), t)
        c1 == IF force THEN c ELSE CacheAfterGet(c, CacheKey(id), t)
        h1 == IF cached # None
              THEN [credential_data |-> FromDump(cached), status |-> "active"]
              ELSE hd
    IN  IF ServedFromCache(hd, cached, t)
        THEN [out |-> Return(h1.credential_data), remote |-> 0, handle |-> h1, cache |-> c1]
        ELSE IF resp.transport = "error"
        THEN [out |-> Raise("NetworkError"), remote |-> 1, handle |-> h1, cache |-> c1]
        ELSE LET r == HandleVerifyResponse(resp)
             IN  IF r.kind = "raise"
                 THEN [out |-> r, remote |-> 1, handle |-> h1, cache |-> c1]
                 ELSE LET u == UpdateFromResult(h1, c1, id, r.value, t)
                      IN  [out |-> IF u.raised # None THEN u.raised
                                   ELSE IF u.handle.credential_data = None
                                   THEN Raise("CredentialInvalidError")
                                   ELSE Return(u.handle.credential_data),
                           remote |-> 1, handle |-> u.handle, cache |-> u.cache]

\* ghost: a load that raises one of the three credential-state errors is noted
\* for its handle; a remote answer with valid=true clears the notes
NoteReport(rep, h, r, resp) ==
    IF r.remote = 1 /\ resp.transport = "ok" /\ IsSuccess(resp.status)
       /\ resp.body.kind = "object" /\ resp.body.valid = "true"
    THEN [x \in Handles |-> None]
    ELSE IF r.out.kind = "raise"
            /\ r.out.exc \in {"CredentialRevokedError", "CredentialExpiredError",
                              "CredentialInvalidError"}
    THEN [rep EXCEPT ![h] = [exc |-> r.out.exc]]
    ELSE rep

LoadCall(h, force, resp) ==
    \E r \in {Load(cache, handles[h], CredentialOf(h), force, resp, now)} :
        /\ cache' = r.cache
        /\ handles' = [handles EXCEPT ![h] = r.handle]
        /\ reported' = NoteReport(reported, h, r, resp)
        /\ last' = [op |-> "load", handle |-> h, id |-> CredentialOf(h), force |-> force,
                    out |-> r.out, remote |-> r.remote,
                    resp |-> IF r.remote = 1 THEN resp ELSE None,
                    held |-> CacheGetValue(cache, CacheKey(CredentialOf(h)), now),
                    before |-> handles[h],
                    written |-> /\ CacheKey(CredentialOf(h)) \in DOMAIN r.cache
                                /\ \/ CacheKey(CredentialOf(h)) \notin DOMAIN cache
                                   \/ r.cache[CacheKey(CredentialOf(h))]
                                        # cache[CacheKey(CredentialOf(h))]]
        /\ UNCHANGED <<now, hist, Watch, answers, calls>>

-----------------------------------------------------------------------------
(* revocation.py: RevocationSubscriber *)

MaxBatch == 2           \* a poll response lists at most MaxBatch revocations

\* RevocationSubscriber.is_revoked
IsRevoked(r, id) == id \in r

\* on_revocation: not registered (None), or a callable that raises for the
\* credential ids in raisesOn and returns for the others; it is handed the
\* event and can look at the subscriber and the cache
Callbacks == {None, [raisesOn |-> {}], [raisesOn |-> {"cred_X"}]}

Seen(id, r, c, cb) ==
    [credential_id |-> id, revoked |-> r, keys |-> DOMAIN c, raised |-> id \in cb.raisesOn]

\* _handle_revocation_event calling on_revocation first and cleaning up after
HandleRevocationEventCallbackFirst(st, id, cb) ==
    [revoked |-> st.revoked \cup {id},
     cache |-> CacheDelete(CacheDelete(st.cache, Key("verify", id)), Key("cred", id)),
     log |-> IF cb = None THEN st.log
             ELSE Append(st.log, Seen(id, st.revoked, st.cache, cb))]

\* RevocationSubscriber._handle_revocation_event on st = [revoked, cache, log];
\* an exception of the callback is caught and dropped
HandleRevocationEvent(st, id, cb) ==
    LET r1 == st.revoked \cup {id}
        c1 == CacheDelete(CacheDelete(st.cache, Key("verify", id)), Key("cred", id))
    IN  [revoked |-> r1, cache |-> c1,
         log |-> IF cb = None THEN st.log ELSE Append(st.log, Seen(id, r1, c1, cb))]

\* the messages of the push channel: text that is not JSON, JSON that is no
\* object, and objects by "type"; a revocation carries data.credential_id or
\* lacks it (None)
PushMessages ==
    {[kind |-> "notjson"], [kind |-> "nonobject"],
     [kind |-> "object", type |-> "ping"], [kind |-> "object", type |-> "error"]}
    \cup {[kind |-> "object", type |-> "revocation", credential_id |-> f] :
            f \in {None, [data |-> "cred_X"], [data |-> "cred_Y"]}}

\* event_data.get("credential_id", "")
EventIdOf(f) == IF f = None THEN "" ELSE f.data

\* RevocationSubscriber._handle_ws_message: the state afterwards and the
\* exception that escapes it (data.get on JSON that is no object)
HandleWsMessage(st, msg, cb) ==
    IF msg.kind = "notjson" THEN [st |-> st, raised |-> None]
    ELSE IF msg.kind = "nonobject" THEN [st |-> st, raised |-> Raise("AttributeError")]
    ELSE IF msg.type = "revocation"
    THEN [st |-> HandleRevocationEvent(st, EventIdOf(msg.credential_id), cb),
          raised |-> None]
    ELSE [st |-> st, raised |-> None]

\* the entries of data["revocations"]: an entry without "credential_id" is malformed
Entries == {[credential_id |-> f] : f \in {None, [data |-> "cred_X"], [data |-> "cred_Y"]}}
Batches == UNION {[1..n -> Entries] : n \in 0..MaxBatch}

\* the answers of GET .../revocations
PollResponses ==
    {TransportError, [transport |-> "ok", status |-> 500, body |-> NotJson],
     [transport |-> "ok", status |-> 200, body |-> NotJson]}
    \cup {[transport |-> "ok", status |-> 200,
           body |-> [kind |-> "object", revocations |-> b]] : b \in Batches}

\* the loop of check_revocations over data["revocations"]: rev["credential_id"]
\* of a malformed entry raises KeyError, which ends the loop
RECURSIVE HandleRevocations(_, _, _)
HandleRevocations(st, revs, cb) ==
    IF revs = <<>> THEN [st |-> st, error |-> None]
    ELSE IF Head(revs).credential_id = None THEN [st |-> st, error |-> Raise("KeyError")]
    ELSE HandleRevocations(HandleRevocationEvent(st, Head(revs).credential_id.data, cb),
                           Tail(revs), cb)

\* RevocationSubscriber.check_revocations and check_revocations_sync: every
\* exception ends in _handle_error; the cursor moves once the body is parsed
CheckRevocations(st, cursor, resp, cb, t) ==
    IF resp.transport = "error" THEN [st |-> st, cursor |-> cursor, error |-> Raise("RequestError")]
    ELSE IF resp.status # 200 THEN [st |-> st, cursor |-> cursor, error |-> Raise("Exception")]
    ELSE IF resp.body.kind = "notjson"
    THEN [st |-> st, cursor |-> cursor, error |-> Raise("JSONDecodeError")]
    ELSE IF resp.body.kind = "nonobject"
    THEN [st |-> st, cursor |-> t, error |-> Raise("AttributeError")]
    ELSE LET r == HandleRevocations(st, resp.body.revocations, cb)
         IN  [st |-> r.st, cursor |-> t, error |-> r.error]

\* ghost: the credential ids of the events a batch makes the subscriber consume
RECURSIVE EventsOf(_)
EventsOf(revs) ==
    IF revs = <<>> \/ Head(revs).credential_id = None THEN <<>>
    ELSE <<Head(revs).credential_id.data>> \o EventsOf(Tail(revs))

Range(seq) == {seq[i] : i \in 1..Len(seq)}

\* ghost: the ids among ids for which the cache holds both entries
Held(c, ids) ==
    {id \in Range(ids) : Key("verify", id) \in DOMAIN c /\ Key("cred", id) \in DOMAIN c}

WatchOthers == <<now, hist, handles, reported, answers, calls>>

\* initial_reconnect_delay, in seconds
DefaultReconnectDelay == 1

\* RevocationSubscriber.__init__: the event is clear, no attempt counted, no
\* task held; `pending` says that a connect() call waits in websockets.connect,
\* `next_poll` is the time at which the sleeping poll loop wakes up
NewSubscriber(auto_reconnect) ==
    [auto_reconnect |-> auto_reconnect, stop |-> FALSE, attempts |-> 0,
     delay |-> DefaultReconnectDelay, poll_task |-> FALSE, pending |-> FALSE,
     next_poll |-> 0, thread |-> "off", thread_wake |-> 0]

\* _set_state: the new state and the calls of on_connection_change it makes
SetStateAlwaysNotifies(state, new) == [state |-> new, notified |-> <<new = "connected">>]

SetState(state, new) ==
    [state |-> new,
     notified |-> IF (state = "connected") # (new = "connected")
                  THEN <<new = "connected">> ELSE <<>>]

\* connect() when the push channel can be established: connect() lines 159-168
\* and _connect_websocket up to the start of its receive loop
ConnectPush ==
    /\ subState = "disconnected"
    /\ subState' = "connected"
    /\ sources' = sources \cup {"push"}
    /\ cbLog' = <<>>
    /\ conn' = [conn EXCEPT !.stop = FALSE, !.attempts = 0,
                             !.delay = DefaultReconnectDelay]
    /\ last' = [op |-> "connect"]
    /\ UNCHANGED <<cache, revoked, consumed, lastCheck, WatchOthers>>

\* one turn of the receive loop of _connect_websocket: a message arrives and
\* _handle_ws_message handles it; `except Exception: break` ends the loop
\* and so does a set _stop_event, which the loop tests before its next turn
PushMessage(msg, cb) ==
    /\ "push" \in sources
    /\ \E r \in {HandleWsMessage([revoked |-> revoked, cache |-> cache, log |-> <<>>], msg, cb)} :
        /\ revoked' = r.st.revoked
        /\ cache' = r.st.cache
        /\ cbLog' = r.st.log
        /\ sources' = IF r.raised # None \/ conn.stop THEN sources \ {"push"} ELSE sources
        /\ consumed' = IF msg.kind = "object" /\ msg.type = "revocation"
                       THEN consumed \cup {EventIdOf(msg.credential_id)} ELSE consumed
        /\ last' = [op |-> "push", msg |-> msg, cb |-> cb,
                    events |-> IF msg.kind = "object" /\ msg.type = "revocation"
                               THEN <<EventIdOf(msg.credential_id)>> ELSE <<>>,
                    held |-> IF msg.kind = "object" /\ msg.type = "revocation"
                             THEN Held(cache, <<EventIdOf(msg.credential_id)>>) ELSE {},
                    running |-> sources, state |-> subState]
    /\ UNCHANGED <<subState, lastCheck, conn, WatchOthers>>

\* check_revocations(), called by a poll loop or by the application
CheckRevocationsCall(resp, cb) ==
    \E r \in {CheckRevocations([revoked |-> revoked, cache |-> cache, log |-> <<>>],
                               lastCheck, resp, cb, now)} :
        /\ revoked' = r.st.revoked
        /\ cache' = r.st.cache
        /\ cbLog' = r.st.log
        /\ lastCheck' = r.cursor
        /\ consumed' = IF resp.transport = "ok" /\ resp.status = 200 /\ resp.body.kind = "object"
                       THEN consumed \cup Range(EventsOf(resp.body.revocations))
                       ELSE consumed
        /\ last' = [op |-> "poll", resp |-> resp, cb |-> cb,
                    events |-> IF resp.transport = "ok" /\ resp.status = 200
                                  /\ resp.body.kind = "object"
                               THEN EventsOf(resp.body.revocations) ELSE <<>>,
                    held |-> IF resp.transport = "ok" /\ resp.status = 200
                                /\ resp.body.kind = "object"
                             THEN Held(cache, EventsOf(resp.body.revocations)) ELSE {},
                    running |-> sources]
        /\ UNCHANGED <<subState, sources, conn, WatchOthers>>

\* poll_interval, in units of time
PollInterval == 1

\* connect() up to the await of websockets.connect: lines 159-163 and the
\* start of _connect_websocket (one connect() call at a time is in flight)
ConnectStart ==
    /\ subState = "disconnected"
    /\ ~conn.pending
    /\ subState' = "connecting"
    /\ conn' = [conn EXCEPT !.stop = FALSE, !.pending = TRUE]
    /\ cbLog' = <<>>
    /\ last' = [op |-> "connect", running |-> sources]
    /\ UNCHANGED <<cache, revoked, consumed, lastCheck, sources, WatchOthers>>

\* websockets.connect succeeds: the state becomes CONNECTED, the reconnect
\* fields are reset and the receive loop starts, unless _stop_event is set
PushEstablished ==
    /\ conn.pending
    /\ subState' = "connected"
    /\ conn' = [conn EXCEPT !.pending = FALSE, !.attempts = 0,
                             !.delay = DefaultReconnectDelay]
    /\ sources' = IF conn.stop THEN sources ELSE sources \cup {"push"}
    /\ cbLog' = <<>>
    /\ last' = [op |-> "established", running |-> sources]
    /\ UNCHANGED <<cache, revoked, consumed, lastCheck, WatchOthers>>

\* _start_polling_async, reached from the `except` of connect(): the state
\* becomes CONNECTED, check_revocations runs once and the poll loop is
\* created as a task; the loop ends at once when _stop_event is set
StartPollingAsync(op, running, resp, cb) ==
    \E r \in {CheckRevocations([revoked |-> revoked, cache |-> cache, log |-> <<>>],
                               lastCheck, resp, cb, now)} :
        /\ subState' = "connected"
        /\ revoked' = r.st.revoked
        /\ cache' = r.st.cache
        /\ cbLog' = r.st.log
        /\ lastCheck' = r.cursor
        /\ consumed' = IF resp.transport = "ok" /\ resp.status = 200 /\ resp.body.kind = "object"
                       THEN consumed \cup Range(EventsOf(resp.body.revocations))
                       ELSE consumed
        /\ sources' = IF conn.stop THEN running ELSE running \cup {"poll"}
        /\ conn' = [conn EXCEPT !.pending = FALSE, !.poll_task = TRUE,
                                 !.next_poll = now + PollInterval]
        /\ last' = [op |-> op, running |-> sources, resp |-> resp, cb |-> cb]
        /\ UNCHANGED WatchOthers

\* websockets cannot be imported or websockets.connect raises: connect()
\* reports the error and falls back to polling
PushRefused(resp, cb) ==
    /\ conn.pending
    /\ StartPollingAsync("refused", sources, resp, cb)

\* ws.recv() raises, as it does when the connection is closed or lost:
\* `except Exception: break` ends the loop and connect() returns
PushRecvFails ==
    /\ "push" \in sources
    /\ sources' = sources \ {"push"}
    /\ cbLog' = <<>>
    /\ last' = [op |-> "recv_failed", running |-> sources]
    /\ UNCHANGED <<cache, revoked, consumed, subState, lastCheck, conn, WatchOthers>>

\* ws.recv() times out and the ping is sent; the loop then tests _stop_event
PushKeepalive ==
    /\ "push" \in sources
    /\ sources' = IF conn.stop THEN sources \ {"push"} ELSE sources
    /\ cbLog' = <<>>
    /\ last' = [op |-> "keepalive", running |-> sources]
    /\ UNCHANGED <<cache, revoked, consumed, subState, lastCheck, conn, WatchOthers>>

\* ws.recv() times out and ws.send raises inside the `except` clause: the
\* exception leaves _connect_websocket and connect() falls back to polling
PushKeepaliveFails(resp, cb) ==
    /\ "push" \in sources
    /\ StartPollingAsync("keepalive_failed", sources \ {"push"}, resp, cb)

\* one turn of poll_loop in _start_polling_async: the sleep ends and
\* check_revocations runs (disconnect() cancels the task, so a running loop
\* never finds _stop_event set)
PollTurn(resp, cb) ==
    /\ "poll" \in sources
    /\ now = conn.next_poll
    /\ \E r \in {CheckRevocations([revoked |-> revoked, cache |-> cache, log |-> <<>>],
                                  lastCheck, resp, cb, now)} :
        /\ revoked' = r.st.revoked
        /\ cache' = r.st.cache
        /\ cbLog' = r.st.log
        /\ lastCheck' = r.cursor
        /\ consumed' = IF resp.transport = "ok" /\ resp.status = 200 /\ resp.body.kind = "object"
                       THEN consumed \cup Range(EventsOf(resp.body.revocations))
                       ELSE consumed
    /\ conn' = [conn EXCEPT !.next_poll = now + PollInterval]
    /\ last' = [op |-> "poll_turn", running |-> sources, resp |-> resp, cb |-> cb]
    /\ UNCHANGED <<subState, sources, WatchOthers>>

\* disconnect(): sets _stop_event, cancels the poll task (_ws_task and
\* _reconnect_task are never assigned, so nothing else is cancelled), sets
\* DISCONNECTED and resets the reconnect fields
Disconnect ==
    /\ subState' = SetState(subState, "disconnected").state
    /\ conn' = [conn EXCEPT !.stop = TRUE, !.poll_task = FALSE, !.attempts = 0,
                             !.delay = DefaultReconnectDelay]
    /\ sources' = IF conn.poll_task THEN sources \ {"poll"} ELSE sources
    /\ cbLog' = <<>>
    /\ last' = [op |-> "disconnect", running |-> sources,
                notified |-> SetState(subState, "disconnected").notified,
                before |-> [state |-> subState, conn |-> conn, revoked |-> revoked]]
    /\ UNCHANGED <<cache, revoked, consumed, lastCheck, WatchOthers>>

\* start_polling(): the state becomes CONNECTED and a daemon thread starts
\* poll_loop; the thread object is kept nowhere (one thread at a time is followed)
StartPolling ==
    /\ subState = "disconnected"
    /\ conn.thread = "off"
    /\ subState' = SetState(subState, "connected").state
    /\ sources' = sources \cup {"thread"}
    /\ conn' = [conn EXCEPT !.thread = "sleeping", !.thread_wake = now]
    /\ cbLog' = <<>>
    /\ last' = [op |-> "start_polling", running |-> sources]
    /\ UNCHANGED <<cache, revoked, consumed, lastCheck, WatchOthers>>

\* poll_loop of start_polling at `while self._state == CONNECTED`, when the
\* thread starts and whenever time.sleep returns: the thread sends the
\* request of check_revocations_sync, or it ends
ThreadWakes ==
    /\ conn.thread = "sleeping"
    /\ now >= conn.thread_wake
    /\ conn' = [conn EXCEPT !.thread = IF subState = "connected" THEN "calling" ELSE "off"]
    /\ sources' = IF subState = "connected" THEN sources ELSE sources \ {"thread"}
    /\ cbLog' = <<>>
    /\ last' = [op |-> "thread_wakes", running |-> sources]
    /\ UNCHANGED <<cache, revoked, consumed, subState, lastCheck, WatchOthers>>

\* the rest of that turn of poll_loop: the answer arrives,
\* check_revocations_sync handles it and the thread sleeps for poll_interval
ThreadResponse(resp, cb) ==
    /\ conn.thread = "calling"
    /\ \E r \in {CheckRevocations([revoked |-> revoked, cache |-> cache, log |-> <<>>],
                                  lastCheck, resp, cb, now)} :
        /\ revoked' = r.st.revoked
        /\ cache' = r.st.cache
        /\ cbLog' = r.st.log
        /\ lastCheck' = r.cursor
        /\ consumed' = IF resp.transport = "ok" /\ resp.status = 200 /\ resp.body.kind = "object"
                       THEN consumed \cup Range(EventsOf(resp.body.revocations))
                       ELSE consumed
    /\ conn' = [conn EXCEPT !.thread = "sleeping", !.thread_wake = now + PollInterval]
    /\ last' = [op |-> "thread_response", running |-> sources, resp |-> resp, cb |-> cb,
                state |-> subState]
    /\ UNCHANGED <<subState, sources, WatchOthers>>

\* time passes, but not beyond the end of a poll loop's sleep
WatchTick ==
    /\ ~("poll" \in sources /\ now >= conn.next_poll)
    /\ ~(conn.thread = "sleeping" /\ now >= conn.thread_wake)
    /\ Tick

-----------------------------------------------------------------------------
(* signature.py: verify_request_signature *)

\* time.time() read between two ticks of the clock: `half` half units past t
ClockReading(t, half) == [sec |-> t, half |-> half]

\* int(time.time()): the fraction is cut off
IntOfTime(clock) == clock.sec

\* RequestSigner.sign_request: the headers of a request signed at this clock
\* reading, with the nonce generate_nonce drew
SignRequest(credential_id, signing_secret, method, url, body, nonce, clock) ==
    [h \in HeaderNames |->
        CASE h = "X-AgentID-Credential" -> credential_id
          [] h = "X-AgentID-Timestamp" -> Str(IntOfTime(clock))
          [] h = "X-AgentID-Nonce" -> nonce
          [] h = "X-AgentID-Signature" ->
                GenerateRequestSignature(method, url, body, IntOfTime(clock),
                                         credential_id, signing_secret)]

\* verify_request_signature never looking at the body
VerifyRequestSignatureAnyBody(signature, method, url, body, timestamp, credential_id, secret, max_age_seconds, clock) ==
    IF Abs(IntOfTime(clock) - timestamp) > max_age_seconds
    THEN Raise("SignatureError")
    ELSE Return(\E b \in {None, [data |-> "{}"], [data |-> "{a}"]} :
                    signature = GenerateRequestSignature(method, url, b, timestamp,
                                                         credential_id, secret))

\* verify_request_signature; hmac.compare_digest is string equality
VerifyRequestSignature(signature, method, url, body, timestamp, credential_id, secret, max_age_seconds, clock) ==
    IF Abs(IntOfTime(clock) - timestamp) > max_age_seconds
    THEN Raise("SignatureError")
    ELSE Return(signature = GenerateRequestSignature(method, url, body, timestamp,
                                                     credential_id, secret))

MaxAges == {0, SignatureMaxAge}
Halves == {0, 1}

VerifyRequestSignatureCall(signature, q, timestamp, credential_id, secret, max_age_seconds, half) ==
    /\ last' = [op |-> "verify_request_signature", signature |-> signature,
                method |-> q.method, url |-> q.url, body |-> q.body,
                timestamp |-> timestamp, credential_id |-> credential_id,
                secret |-> secret, max_age_seconds |-> max_age_seconds, half |-> half,
                out |-> VerifyRequestSignature(signature, q.method, q.url, q.body, timestamp,
                                               credential_id, secret, max_age_seconds,
                                               ClockReading(now, half))]
    /\ UNCHANGED <<now, cache, hist, Others>>

-----------------------------------------------------------------------------
(* verifier.py: check_permission *)

MaxPerms == 2           \* a permission list has at most MaxPerms entries

\* resources and patterns are strings, written as tuples of characters
Lowercase(ch) == IF ch = "D" THEN "d" ELSE ch

\* os.path.normcase, which fnmatch.fnmatch applies to the name and to the
\* pattern: the identity on POSIX; lower case and backslashes on Windows
Platforms == {"posix", "nt"}
NormCase(str, platform) ==
    IF platform = "posix" THEN str
    ELSE [i \in 1..Len(str) |-> IF str[i] = "/" THEN "\\" ELSE Lowercase(str[i])]

\* fnmatch.fnmatchcase for patterns without brackets: `*` is any run of
\* characters, `?` is any one character, the match covers the whole name
RECURSIVE FnMatchCase(_, _)
FnMatchCase(name, pat) ==
    IF pat = <<>> THEN name = <<>>
    ELSE IF Head(pat) = "*"
    THEN FnMatchCase(name, Tail(pat)) \/ (name # <<>> /\ FnMatchCase(Tail(name), pat))
    ELSE IF name = <<>> THEN FALSE
    ELSE IF Head(pat) = "?" THEN FnMatchCase(Tail(name), Tail(pat))
    ELSE Head(pat) = Head(name) /\ FnMatchCase(Tail(name), Tail(pat))

\* fnmatch.fnmatch
FnMatch(name, pat, platform) == FnMatchCase(NormCase(name, platform), NormCase(pat, platform))

\* a permission is a bare string, [str |-> s], or a structured permission
\* [resource, actions, conditions]; conditions are None or PermissionConditions
StringPermission(s) == [str |-> s]
Permission(resource, actions, conditions) ==
    [resource |-> resource, actions |-> actions, conditions |-> conditions]

\* PermissionConditions: the two fields check_permission enforces, two it
\* reads and passes over, and one it never reads
PermissionConditions(amount, regions, hours, per_minute, approval) ==
    [max_transaction_amount |-> amount, allowed_regions |-> regions,
     valid_hours |-> hours, max_requests_per_minute |-> per_minute,
     requires_approval |-> approval]

\* a context is None or a dict; of its keys only "amount" and "region" are read
Context(amount, region, other) == [amount |-> amount, region |-> region, other |-> other]

\* truth values of Python: None, 0, the empty string, list and dict are false
NumberTruthy(x) == x # None /\ x.num # 0
ListTruthy(x) == x # None /\ x.list # {}
ContextTruthy(ctx) ==
    ctx # None /\ (ctx.amount # None \/ ctx.region # None \/ ctx.other)

Skip == [skip |-> TRUE]
Granted == [granted |-> TRUE]
Denied(reason) == [granted |-> FALSE, reason |-> reason]

AmountReason(amount, limit) == [text |-> "Amount exceeds limit", amount |-> amount, limit |-> limit]
RegionReason(region) == [text |-> "Region not allowed", region |-> region]
NoPermissionReason(action, resource) ==
    [text |-> "No permission for", action |-> action, resource |-> resource]

\* the conditions with the approval flag enforced too
ConditionsVerdictWithApproval(conditions, context) ==
    IF conditions.requires_approval THEN Denied([text |-> "Approval required"])
    ELSE IF NumberTruthy(conditions.max_transaction_amount)
       /\ NumberTruthy(context.amount)
       /\ context.amount.num > conditions.max_transaction_amount.num
    THEN Denied(AmountReason(context.amount.num, conditions.max_transaction_amount.num))
    ELSE IF ListTruthy(conditions.allowed_regions)
            /\ Truthy(context.region)
            /\ context.region.data \notin conditions.allowed_regions.list
    THEN Denied(RegionReason(context.region.data))
    ELSE Granted

\* the body of `if perm.conditions and context:`
ConditionsVerdict(conditions, context) ==
    IF NumberTruthy(conditions.max_transaction_amount)
       /\ NumberTruthy(context.amount)
       /\ context.amount.num > conditions.max_transaction_amount.num
    THEN Denied(AmountReason(context.amount.num, conditions.max_transaction_amount.num))
    ELSE IF ListTruthy(conditions.allowed_regions)
            /\ Truthy(context.region)
            /\ context.region.data \notin conditions.allowed_regions.list
    THEN Denied(RegionReason(context.region.data))
    ELSE Granted

\* a string permission that grants only as the wildcard
StringGrantsWildcardOnly(str, action) == str = "*"

\* `if perm == "*" or perm == action`
StringGrants(str, action) == str = "*" \/ str = action

\* one turn of the loop of check_permission: the value returned, or Skip for `continue`
EntryVerdict(perm, resource, action, context, platform) ==
    IF "str" \in DOMAIN perm
    THEN IF StringGrants(perm.str, action) THEN Granted ELSE Skip
    ELSE IF ~FnMatch(resource, perm.resource, platform) THEN Skip
    ELSE IF action \notin perm.actions /\ "*" \notin perm.actions THEN Skip
    ELSE IF perm.conditions # None /\ ContextTruthy(context)
    THEN ConditionsVerdict(perm.conditions, context)
    ELSE Granted

\* check_permission returning the verdict of the last decisive entry
RECURSIVE CheckPermissionLastWins(_, _, _, _, _)
CheckPermissionLastWins(permissions, resource, action, context, platform) ==
    IF permissions = <<>> THEN Denied(NoPermissionReason(action, resource))
    ELSE LET rest == CheckPermissionLastWins(Tail(permissions), resource, action,
                                             context, platform)
             v == EntryVerdict(Head(permissions), resource, action, context, platform)
         IN  IF rest = Denied(NoPermissionReason(action, resource)) /\ v # Skip
             THEN v ELSE rest

\* check_permission
RECURSIVE CheckPermission(_, _, _, _, _)
CheckPermission(permissions, resource, action, context, platform) ==
    IF permissions = <<>> THEN Denied(NoPermissionReason(action, resource))
    ELSE LET v == EntryVerdict(Head(permissions), resource, action, context, platform)
         IN  IF v # Skip THEN v
             ELSE CheckPermission(Tail(permissions), resource, action, context, platform)

\* the arguments of a call that is about to be made
Arguments(permissions, resource, action, context, platform) ==
    [op |-> "arguments", permissions |-> permissions, resource |-> resource,
     action |-> action, context |-> context, platform |-> platform]

CheckPermissionCall(permissions, resource, action, context, platform) ==
    /\ last' = [op |-> "check_permission", permissions |-> permissions,
                resource |-> resource, action |-> action, context |-> context,
                platform |-> platform,
                out |-> CheckPermission(permissions, resource, action, context, platform)]
    /\ UNCHANGED <<now, cache, hist, Others>>

-----------------------------------------------------------------------------
(* cache.py: CredentialCache called from several threads *)

Threads == {"t1", "t2"}

Idle == [pc |-> "idle"]

\* calls of a cache shared by threads: per thread its call, the statement it
\* has reached and its local variables; `lock` is the holder of _lock
ThreadCalls == [lock |-> None, of |-> [t \in Threads |-> Idle]]

\* `with self._lock:` lets the thread in whether or not the lock is held
LockFreeAlways(lock) == TRUE

\* `with self._lock:` waits until no thread holds the lock (no cache method
\* calls another one, so the lock is never acquired twice by one thread)
LockFree(lock) == lock = None

\* the call is made: for set(), `if ttl is None: ttl = self._default_ttl`
\* runs before the lock is taken
CacheCall(t, op, k, v, a) ==
    /\ calls.of[t].pc = "idle"
    /\ calls' = [calls EXCEPT !.of[t] = [pc |-> "called", op |-> op, key |-> k, value |-> v,
                                        arg |-> a, ttl |-> EffectiveTTL(a)]]
    /\ last' = [op |-> "call", thread |-> t]
    /\ UNCHANGED <<now, cache, hist, handles, reported, Watch, answers>>

\* `with self._lock:` is entered; `seen` is a ghost: the store at that instant
CacheAcquire(t) ==
    /\ calls.of[t].pc = "called"
    /\ LockFree(calls.lock)
    /\ calls' = [calls EXCEPT !.lock = [by |-> t],
                              !.of[t] = [calls.of[t] EXCEPT !.pc = "locked"] @@ [seen |-> cache]]
    /\ last' = [op |-> "acquire", thread |-> t]
    /\ UNCHANGED <<now, cache, hist, handles, reported, Watch, answers>>

\* the first statement under the lock of each method
FirstStatement(call, c, t) ==
    CASE call.op = "get" ->
            [call |-> [call EXCEPT !.pc = "read"]
                        @@ [entry |-> IF call.key \in DOMAIN c THEN c[call.key] ELSE None],
             cache |-> c]
      [] call.op = "get_ttl" ->
            [call |-> [call EXCEPT !.pc = "read"]
                        @@ [entry |-> IF call.key \in DOMAIN c THEN c[call.key] ELSE None],
             cache |-> c]
      [] call.op = "delete" ->
            [call |-> [call EXCEPT !.pc = "read"] @@ [found |-> call.key \in DOMAIN c],
             cache |-> c]
      [] call.op = "cleanup_expired" ->
            [call |-> [call EXCEPT !.pc = "read"]
                        @@ [expired_keys |-> {k \in DOMAIN c : IsExpired(c[k], t)}, at |-> t],
             cache |-> c]
      [] call.op = "set" ->
            [call |-> [call EXCEPT !.pc = "done"] @@ [result |-> Return(None), at |-> t],
             cache |-> [x \in DOMAIN c \cup {call.key} |->
                           IF x = call.key THEN CacheEntry(call.value, t + call.ttl) ELSE c[x]]]
      [] call.op = "clear" ->
            [call |-> [call EXCEPT !.pc = "done"] @@ [result |-> Return(None), at |-> t],
             cache |-> [x \in {} |-> None]]
      [] call.op = "size" ->
            [call |-> [call EXCEPT !.pc = "done"]
                        @@ [result |-> Return(Cardinality(DOMAIN c)), at |-> t],
             cache |-> c]

\* `del self._cache[key]` for each key of keys: KeyError when one is missing
DelKeys(call, c, keys, result, t) ==
    [call |-> [call EXCEPT !.pc = "done"]
                @@ [result |-> IF keys \subseteq DOMAIN c THEN result ELSE Raise("KeyError"),
                    at |-> t],
     cache |-> [x \in DOMAIN c \ keys |-> c[x]]]

\* the statements that follow the first one
SecondStatement(call, c, t) ==
    CASE call.op = "get" ->
            IF call.entry = None THEN DelKeys(call, c, {}, Return(None), t)
            ELSE IF IsExpired(call.entry, t) THEN DelKeys(call, c, {call.key}, Return(None), t)
            ELSE DelKeys(call, c, {}, Return(call.entry.value), t)
      [] call.op = "get_ttl" ->
            IF call.entry = None \/ IsExpired(call.entry, t)
            THEN DelKeys(call, c, {}, Return(None), t)
            ELSE DelKeys(call, c, {},
                         Return([ttl |-> IF call.entry.expires_at - t > 0
                                         THEN call.entry.expires_at - t ELSE 0]), t)
      [] call.op = "delete" ->
            IF call.found THEN DelKeys(call, c, {call.key}, Return(TRUE), t)
            ELSE DelKeys(call, c, {}, Return(FALSE), t)
      [] call.op = "cleanup_expired" ->
            DelKeys(call, c, call.expired_keys, Return(Cardinality(call.expired_keys)),
                    call.at)

\* one statement of a method is executed by the thread that is inside the lock
CacheStep(t) ==
    /\ calls.of[t].pc \in {"locked", "read"}
    /\ \E r \in {IF calls.of[t].pc = "locked" THEN FirstStatement(calls.of[t], cache, now)
                 ELSE SecondStatement(calls.of[t], cache, now)} :
        /\ cache' = r.cache
        /\ calls' = [calls EXCEPT !.of[t] = r.call]
    /\ last' = [op |-> "statement", thread |-> t]
    /\ UNCHANGED <<now, hist, handles, reported, Watch, answers>>

\* the method returns or raises, and the lock is released
CacheReturn(t) ==
    /\ calls.of[t].pc = "done"
    /\ calls' = [calls EXCEPT !.lock = None, !.of[t] = Idle]
    /\ last' = [op |-> "return", thread |-> t, call |-> calls.of[t].op,
                result |-> calls.of[t].result]
    /\ UNCHANGED <<now, cache, hist, handles, reported, Watch, answers>>

-----------------------------------------------------------------------------
(* cache.py: the dicts passed to set() and returned by get() *)

\* a dict is an object of the heap: a caller and the cache hold references
\* [ref |-> o] to it, and `contents` is what the object holds at this time
Objects == {"o1", "o2"}
Contents == {[tag |-> "v1"], [tag |-> "v2"]}
Ref(o) == [ref |-> o]

\* the heap, and as a ghost what each key's object held when set() stored it
NoObjects == [contents |-> [o \in Objects |-> [tag |-> "v1"]], stored |-> <<>>]

\* set(key, value): the entry keeps the reference passed in (value=value)
AliasSet(k, o) ==
    /\ cache' = CacheSet(cache, k, Ref(o), None, now)
    /\ calls' = [calls EXCEPT !.stored = [x \in DOMAIN calls.stored \cup {k} |->
                                             IF x = k THEN calls.contents[o]
                                             ELSE calls.stored[x]]]
    /\ last' = [op |-> "alias_set", key |-> k, value |-> Ref(o)]
    /\ UNCHANGED <<now, hist, handles, reported, Watch, answers>>

\* get(key): `return entry.value` hands out the reference the entry holds
AliasGet(k) ==
    /\ cache' = CacheAfterGet(cache, k, now)
    /\ last' = [op |-> "alias_get", key |-> k, ret |-> CacheGetValue(cache, k, now)]
    /\ UNCHANGED <<now, hist, handles, reported, Watch, answers, calls>>

\* the caller changes a dict it holds: one it passed to set() or got from get()
Mutate(o, content) ==
    /\ calls.contents[o] # content
    /\ calls' = [calls EXCEPT !.contents[o] = content]
    /\ last' = [op |-> "mutate", object |-> o]
    /\ UNCHANGED <<now, cache, hist, handles, reported, Watch, answers>>

-----------------------------------------------------------------------------
(* Initial state: everything freshly constructed *)

InitObjects ==
    /\ now = 0
    /\ cache = [x \in {} |-> None]
    /\ hist = [k \in Keys |-> NoSet]
    /\ handles = [h \in Handles |-> NewHandle]
    /\ reported = [h \in Handles |-> None]
    /\ revoked = {}
    /\ consumed = {}
    /\ cbLog = <<>>
    /\ subState = "disconnected"
    /\ lastCheck = 0
    /\ sources = {}
    /\ answers = {}

Init ==
    /\ InitObjects
    /\ calls = NoCalls
    /\ conn = NewSubscriber(TRUE)
    /\ last = NoOp

NextCache ==
    \/ \E k \in ClientKeys, v \in ClientValues, a \in TTLArgs : ClientSet(k, v, a)
    \/ \E k \in ClientKeys : ClientGet(k)
    \/ \E k \in ClientKeys : ClientDelete(k)
    \/ ClientClear
    \/ ClientCleanup
    \/ Tick

SpecCache == Init /\ [][NextCache]_vars

\* a service verifying whatever requests reach it; the authority answers a
\* lookup with a valid payload, a revocation or not at all
RequestResponses(id) ==
    {TransportError,
     Response(200, "absent", ObjectBody("false", "CREDENTIAL_REVOKED", None)),
     Response(200, "absent", ObjectBody("true", "NONE",
        [credential_id |-> id, agent_name |-> "agent_a", valid_until |-> MaxTime + 2]))}

VerifyAnyRequest(cred, ts, sig, q, verify_signature) ==
    \E headers \in {HeaderDict(cred, ts, sig, q.lower)} :
    \E local \in {LocalChecks(ExtractCredentialInfo(headers), verify_signature, now)} :
    \E resp \in IF local = None THEN RequestResponses(cred.data) ELSE {TransportError} :
        VerifyRequestCall(headers, q.method, q.url, q.body, verify_signature, resp)

NextRequest ==
    \/ \E cred \in CredentialHeaders, ts \in TimestampHeaders(now), q \in RequestShapes :
          \E sig \in SignatureHeaders(q, ts, cred) :
          \E verify_signature \in IF q.lower THEN BOOLEAN ELSE {TRUE} :
             VerifyAnyRequest(cred, ts, sig, q, verify_signature)
    \/ Tick

SpecRequest == Init /\ [][NextRequest]_vars

\* a service verifying credentials by id, with and without the cache, and
\* properly signed requests; the authority answers with one of two valid
\* results, a revocation, a rate limit, a malformed body or not at all
VerifierResponses(id) ==
    {TransportError,
     Response(429, "absent", NotJson),
     Response(200, "absent", NotJson),
     Response(200, "absent", ObjectBody("false", "CREDENTIAL_REVOKED", None)),
     Response(200, "absent", ObjectBody("true", "NONE", None)),
     Response(200, "absent", ObjectBody("true", "NONE",
        [credential_id |-> id, agent_name |-> "agent_a", valid_until |-> MaxTime + 2]))}

VerifySigned(id, resp) ==
    VerifyRequestCall(SignedHeaders(id, "GET", "https://svc/a", None, None, now),
                      "GET", "https://svc/a", None, TRUE, resp)

\* the second credential is only ever looked up through the cache and is
\* either valid or revoked
OtherResponses(id) ==
    {Response(200, "absent", ObjectBody("false", "CREDENTIAL_REVOKED", None)),
     Response(200, "absent", ObjectBody("true", "NONE",
        [credential_id |-> id, agent_name |-> "agent_b", valid_until |-> MaxTime + 2]))}

NextVerifier ==
    \/ \E use_cache \in BOOLEAN :
          \E resp \in VerifierResponses("cred_X") :
             VerifyCredentialCall("cred_X", use_cache, resp)
    \/ \E resp \in OtherResponses("cred_Y") : VerifyCredentialCall("cred_Y", TRUE, resp)
    \/ \E resp \in OtherResponses("cred_X") : VerifySigned("cred_X", resp)
    \/ Tick

SpecVerifier == Init /\ [][NextVerifier]_vars

\* a service verifying properly signed requests against an authority that may
\* answer anything
NextAnswers ==
    \/ \E resp \in ResponsesOf(Payloads("cred_X")) : VerifySigned("cred_X", resp)
    \/ Tick

SpecAnswers == Init /\ [][NextAnswers]_vars

\* a revocation watch on the push channel, polled by the application as
\* well, over a cache whose `verify:` and `cred:` entries a client fills;
\* nothing the watch does with an event depends on the clock, which stands still
NextWatch ==
    \/ ConnectPush
    \/ \E msg \in PushMessages, cb \in Callbacks : PushMessage(msg, cb)
    \/ \E resp \in PollResponses, cb \in Callbacks : CheckRevocationsCall(resp, cb)
    \/ \E k \in ClientKeys : ClientSet(k, [tag |-> "v1"], None)

SpecWatch == Init /\ [][NextWatch]_vars

\* the life of one revocation watch: connect() with a push channel that is
\* established or refused, the channel's messages, timeouts and failures,
\* the poll loop of the fallback, and disconnect()
ConnectResponses ==
    {TransportError,
     [transport |-> "ok", status |-> 200, body |-> [kind |-> "object", revocations |-> <<>>]],
     [transport |-> "ok", status |-> 200,
      body |-> [kind |-> "object", revocations |-> <<[credential_id |-> [data |-> "cred_X"]]>>]]}

ConnectMessages ==
    {[kind |-> "nonobject"], [kind |-> "object", type |-> "ping"],
     [kind |-> "object", type |-> "revocation", credential_id |-> [data |-> "cred_X"]]}

InitConnect ==
    /\ InitObjects
    /\ calls = NoCalls
    /\ conn \in {NewSubscriber(auto_reconnect) : auto_reconnect \in BOOLEAN}
    /\ last = NoOp

NextConnect ==
    \/ ConnectStart
    \/ PushEstablished
    \/ \E resp \in ConnectResponses : PushRefused(resp, None)
    \/ \E msg \in ConnectMessages : PushMessage(msg, None)
    \/ PushRecvFails
    \/ PushKeepalive
    \/ \E resp \in ConnectResponses : PushKeepaliveFails(resp, None)
    \/ \E resp \in ConnectResponses : PollTurn(resp, None)
    \/ Disconnect
    \/ WatchTick

SpecConnect == InitConnect /\ [][NextConnect]_vars

\* the same watch with an on_revocation callback, started by connect() or by
\* start_polling(), under every interleaving of its calls with the events of
\* the channel, the answers of the polls and the clock
NextSession ==
    \/ ConnectStart
    \/ PushEstablished
    \/ \E resp \in ConnectResponses : PushRefused(resp, [raisesOn |-> {}])
    \/ \E msg \in ConnectMessages : PushMessage(msg, [raisesOn |-> {}])
    \/ PushRecvFails
    \/ PushKeepalive
    \/ \E resp \in ConnectResponses : PushKeepaliveFails(resp, [raisesOn |-> {}])
    \/ \E resp \in ConnectResponses : PollTurn(resp, [raisesOn |-> {}])
    \/ StartPolling
    \/ ThreadWakes
    \/ \E resp \in ConnectResponses : ThreadResponse(resp, [raisesOn |-> {}])
    \/ Disconnect
    \/ WatchTick

SpecSession == Init /\ [][NextSession]_vars

\* two threads that call the methods of one cache in every interleaving of
\* their statements, while the clock advances
CacheCalls ==
    {[op |-> op, key |-> k, value |-> None, arg |-> None] :
        op \in {"get", "delete", "get_ttl"}, k \in ClientKeys}
    \cup {[op |-> "set", key |-> Key("verify", "cred_X"), value |-> [tag |-> "v1"], arg |-> None],
          [op |-> "set", key |-> Key("verify", "cred_X"), value |-> [tag |-> "v2"],
           arg |-> [ttl |-> MaxTTL]]}
    \cup {[op |-> "set", key |-> Key("cred", "cred_X"), value |-> [tag |-> "v1"], arg |-> None]}
    \cup {[op |-> op, key |-> None, value |-> None, arg |-> None] :
            op \in {"clear", "cleanup_expired", "size"}}

InitThreads ==
    /\ InitObjects
    /\ calls = ThreadCalls
    /\ conn = NewSubscriber(TRUE)
    /\ last = NoOp

NextThreads ==
    \/ \E t \in Threads, c \in CacheCalls : CacheCall(t, c.op, c.key, c.value, c.arg)
    \/ \E t \in Threads : CacheAcquire(t)
    \/ \E t \in Threads : CacheStep(t)
    \/ \E t \in Threads : CacheReturn(t)
    \/ Tick

SpecThreads == InitThreads /\ [][NextThreads]_vars

\* a caller that stores dicts in the cache, reads them back and changes them
InitAlias ==
    /\ InitObjects
    /\ calls = NoObjects
    /\ conn = NewSubscriber(TRUE)
    /\ last = NoOp

NextAlias ==
    \/ \E k \in ClientKeys, o \in Objects : AliasSet(k, o)
    \/ \E k \in ClientKeys : AliasGet(k)
    \/ \E o \in Objects, content \in Contents : Mutate(o, content)
    \/ Tick

SpecAlias == InitAlias /\ [][NextAlias]_vars

\* AgentCredential.load called by several threads on one handle: load takes
\* no lock, so the threads interleave between its statements; each thread's
\* locals (force, cached, result, ttl) are in calls.of[t], the handle's
\* _credential_data and _status and the cache are shared
Racing == "h1"

LoadStep(t, name, rec) ==
    /\ calls' = [calls EXCEPT !.of[t] = rec]
    /\ last' = [op |-> name, thread |-> t, call |-> rec]
    /\ UNCHANGED <<now, hist, reported, Watch, answers>>

\* `if not force: cached = self.cache.get(self.cache_key)` and `if cached:`
LoadBegins(t, force) ==
    /\ calls.of[t].pc = "idle"
    /\ LET key == CacheKey(CredentialOf(Racing))
           cached == IF force THEN None ELSE CacheGetValue(cache, key, now)
       IN  /\ cache' = IF force THEN cache ELSE CacheAfterGet(cache, key, now)
           /\ LoadStep(t, "load_begins",
                       [pc |-> IF cached # None THEN "adopt" ELSE "fetch",
                        force |-> force, cached |-> cached, remote |-> 0])
    /\ UNCHANGED handles

\* `self._credential_data = CredentialPayload(**cached)` and
\* `self._status = CredentialStatus.ACTIVE`
LoadAdopts(t) ==
    /\ calls.of[t].pc = "adopt"
    /\ handles' = [handles EXCEPT ![Racing] =
                      [credential_data |-> FromDump(calls.of[t].cached), status |-> "active"]]
    /\ LoadStep(t, "load_adopts", [calls.of[t] EXCEPT !.pc = "decide"])
    /\ UNCHANGED cache

\* `if not self.needs_refresh: return self._credential_data`: both read the
\* handle as it is now
LoadDecides(t) ==
    /\ calls.of[t].pc = "decide"
    /\ LoadStep(t, "load_decides",
                IF ~NeedsRefresh(handles[Racing], now)
                THEN [calls.of[t] EXCEPT !.pc = "done"]
                        @@ [out |-> Return(handles[Racing].credential_data)]
                ELSE [calls.of[t] EXCEPT !.pc = "fetch"])
    /\ UNCHANGED <<cache, handles>>

\* `result = self._fetch_credential_sync()`
LoadFetches(t, resp) ==
    /\ calls.of[t].pc = "fetch"
    /\ LET r == IF resp.transport = "error" THEN Raise("NetworkError")
                ELSE HandleVerifyResponse(resp)
           rec == [calls.of[t] EXCEPT !.remote = 1]
       IN  LoadStep(t, "load_fetches",
                    IF r.kind = "raise"
                    THEN [rec EXCEPT !.pc = "done"] @@ [out |-> r]
                    ELSE [rec EXCEPT !.pc = "update"] @@ [result |-> r.value])
    /\ UNCHANGED <<cache, handles>>

\* _update_from_result up to `self._credential_data = result.credential`
LoadUpdates(t) ==
    /\ calls.of[t].pc = "update"
    /\ LET result == calls.of[t].result
           u == UpdateFromResult(handles[Racing], cache, CredentialOf(Racing), result, now)
       IN  IF ~result.valid
           THEN /\ handles' = [handles EXCEPT ![Racing] = u.handle]
                /\ LoadStep(t, "load_updates",
                            [calls.of[t] EXCEPT !.pc = "done"] @@ [out |-> u.raised])
           ELSE /\ handles' = [handles EXCEPT ![Racing].credential_data = result.credential]
                /\ LoadStep(t, "load_updates", [calls.of[t] EXCEPT !.pc = "status"])
    /\ UNCHANGED cache

\* `self._status = CredentialStatus.ACTIVE`
LoadActivates(t) ==
    /\ calls.of[t].pc = "status"
    /\ handles' = [handles EXCEPT ![Racing].status = "active"]
    /\ LoadStep(t, "load_activates", [calls.of[t] EXCEPT !.pc = "ttl"])
    /\ UNCHANGED cache

\* `if self._credential_data: ttl = min(self.time_to_expiry, 3600)`
LoadComputesTTL(t) ==
    /\ calls.of[t].pc = "ttl"
    /\ LoadStep(t, "load_computes_ttl",
                IF handles[Racing].credential_data # None
                THEN [calls.of[t] EXCEPT !.pc = "set"]
                        @@ [ttl |-> Min(TimeToExpiry(handles[Racing], now), CredCacheCap)]
                ELSE [calls.of[t] EXCEPT !.pc = "check"])
    /\ UNCHANGED <<cache, handles>>

\* `self.cache.set(self.cache_key, self._credential_data.model_dump(), ttl=ttl)`
LoadCaches(t) ==
    /\ calls.of[t].pc = "set"
    /\ LET data == handles[Racing].credential_data
       IN  IF data = None
           THEN /\ cache' = cache
                /\ LoadStep(t, "load_caches", [calls.of[t] EXCEPT !.pc = "done"]
                                                @@ [out |-> Raise("AttributeError")])
           ELSE /\ cache' = CacheSet(cache, CacheKey(CredentialOf(Racing)), ModelDump(data),
                                     [ttl |-> calls.of[t].ttl], now)
                /\ LoadStep(t, "load_caches", [calls.of[t] EXCEPT !.pc = "check"])
    /\ UNCHANGED handles

\* `if not self._credential_data: raise ...` and `return self._credential_data`
LoadReturns(t) ==
    /\ calls.of[t].pc = "check"
    /\ LoadStep(t, "load_returns",
                [calls.of[t] EXCEPT !.pc = "done"]
                   @@ [out |-> IF handles[Racing].credential_data = None
                               THEN Raise("CredentialInvalidError")
                               ELSE Return(handles[Racing].credential_data)])
    /\ UNCHANGED <<cache, handles>>

\* the answers of the authority during a race: no answer, a payload that
\* expires soon, one that expires later, valid=true without a payload, a
\* revocation
RaceResponses(id) ==
    {TransportError,
     Response(200, "absent", ObjectBody("false", "CREDENTIAL_REVOKED", None)),
     Response(200, "absent", ObjectBody("true", "NONE", None))}
    \cup {Response(200, "absent", ObjectBody("true", "NONE",
              [credential_id |-> id, agent_name |-> "agent_a", valid_until |-> u])) :
            u \in {2, MaxTime + 2}}

InitRace ==
    /\ InitObjects
    /\ calls = ThreadCalls
    /\ conn = NewSubscriber(TRUE)
    /\ last = NoOp

\* t1 reloads with or without force, t2 with force; each thread loads once
NextRace ==
    \/ \E force \in BOOLEAN : LoadBegins("t1", force)
    \/ LoadBegins("t2", TRUE)
    \/ \E t \in Threads : LoadAdopts(t)
    \/ \E t \in Threads : LoadDecides(t)
    \/ \E t \in Threads, resp \in RaceResponses(CredentialOf(Racing)) : LoadFetches(t, resp)
    \/ \E t \in Threads : LoadUpdates(t)
    \/ \E t \in Threads : LoadActivates(t)
    \/ \E t \in Threads : LoadComputesTTL(t)
    \/ \E t \in Threads : LoadCaches(t)
    \/ \E t \in Threads : LoadReturns(t)
    \/ Tick

SpecRace == InitRace /\ [][NextRace]_vars

\* generate_request_signature called twice, on two argument lists that are
\* the same or differ in one argument; a body is a str or a bytes object
SignArgs(method, url, body, credential_id, secret) ==
    [method |-> method, url |-> url, body |-> body, credential_id |-> credential_id,
     secret |-> secret]

SignMethods == {"GET", "get", "POST"}
SignUrls == {"https://svc/a", "https://svc/b"}
SignBodies ==
    {None, [data |-> "", type |-> "str"], [data |-> "{}", type |-> "str"],
     [data |-> "{}", type |-> "bytes"], [data |-> "{a}", type |-> "str"]}
SignIds == {"cred_X", "cred_Y"}
SignSecrets == {None, [data |-> ""], [data |-> "k1"], [data |-> "k1<NUL>"], [data |-> "k2"]}

SignInputs ==
    {SignArgs(m, u, b, id, s) :
        m \in SignMethods, u \in SignUrls, b \in SignBodies, id \in SignIds, s \in SignSecrets}

\* the arguments in which two argument lists differ
Varied(a, b) == {f \in DOMAIN a : a[f] # b[f]}

GenerateRequestSignatureCall ==
    /\ last.op = "sign_arguments"
    /\ last' = [op |-> "generate_request_signature", a |-> last.a, b |-> last.b,
                timestamp |-> now,
                sa |-> GenerateRequestSignature(last.a.method, last.a.url, last.a.body, now,
                                                last.a.credential_id, last.a.secret),
                sb |-> GenerateRequestSignature(last.b.method, last.b.url, last.b.body, now,
                                                last.b.credential_id, last.b.secret)]
    /\ UNCHANGED <<now, cache, Others, hist>>

InitSign ==
    /\ InitObjects
    /\ calls = NoCalls
    /\ conn = NewSubscriber(TRUE)
    /\ last \in {[op |-> "sign_arguments", a |-> p[1], b |-> p[2]] :
                    p \in {q \in SignInputs \X SignInputs :
                              Cardinality(Varied(q[1], q[2])) <= 1}}

NextSign == GenerateRequestSignatureCall

SpecSign == InitSign /\ [][NextSign]_vars

\* a request signed by a RequestSigner and, at the same instant or later,
\* checked by its receiver with verify_request_signature: the receiver is given
\* the method, URL, credential id and secret of the sender, the timestamp and
\* the signature of the headers, and a body that may have been altered on the
\* way; calls.request is the request in flight
Nonces == {"n1", "n2"}

SignRequestCall(method, url, body, signing_secret, nonce, half) ==
    /\ calls' = [lock |-> None,
                 request |-> [method |-> method, url |-> url, body |-> body,
                              credential_id |-> "cred_X", secret |-> signing_secret,
                              headers |-> SignRequest("cred_X", signing_secret, method, url,
                                                      body, nonce, ClockReading(now, half))]]
    /\ last' = [op |-> "sign_request", request |-> calls'.request]
    /\ UNCHANGED <<now, cache, hist, handles, reported, Watch, answers>>

VerifySignedCall(body, max_age_seconds, half) ==
    /\ "request" \in DOMAIN calls
    /\ LET q == calls.request
           timestamp == ParseInt(q.headers["X-AgentID-Timestamp"]).val
       IN  last' = [op |-> "verify_signed", request |-> q, body |-> body,
                    timestamp |-> timestamp, max_age_seconds |-> max_age_seconds,
                    clock |-> ClockReading(now, half),
                    out |-> VerifyRequestSignature(q.headers["X-AgentID-Signature"], q.method,
                                                   q.url, body, timestamp, q.credential_id,
                                                   q.secret, max_age_seconds,
                                                   ClockReading(now, half))]
    /\ UNCHANGED <<now, cache, hist, Others>>

InitRoundTrip ==
    /\ InitObjects
    /\ calls = NoCalls
    /\ conn = NewSubscriber(TRUE)
    /\ last = NoOp

NextRoundTrip ==
    \/ \E method \in {"GET", "post"}, body \in SignBodies, secret \in Secrets,
          nonce \in Nonces, half \in Halves :
          SignRequestCall(method, "https://svc/a", body, secret, nonce, half)
    \/ \E body \in SignBodies, max_age_seconds \in MaxAges, half \in Halves :
          VerifySignedCall(body, max_age_seconds, half)
    \/ Tick

SpecRoundTrip == InitRoundTrip /\ [][NextRoundTrip]_vars

\* The coroutines verify_request_async and load_async: each runs up to its
\* one await (the remote call), is suspended while the event loop runs, and is
\* resumed with the answer; calls.suspended is the suspended coroutine with
\* the state it was started from

\* verify_credential_async up to `await client.post(...)`
VerifyCredentialAsyncStart(c, id, use_cache, t) ==
    LET key == Key("verify", id)
        cached == IF use_cache THEN CacheGetValue(c, key, t) ELSE None
        c1 == IF use_cache THEN CacheAfterGet(c, key, t) ELSE c
    IN  IF CacheHit(use_cache, cached)
        THEN [done |-> TRUE, out |-> Return(FromDump(cached)), cache |-> c1]
        ELSE [done |-> FALSE, out |-> None, cache |-> c1]

\* verify_credential_async resumed, forgetting to cache the answer
VerifyCredentialAsyncResumeUncached(c, id, use_cache, resp, t) ==
    [out |-> IF resp.transport = "error" THEN Raise("NetworkError") ELSE HandleResponse(resp),
     cache |-> c]

\* verify_credential_async from the await on
VerifyCredentialAsyncResume(c, id, use_cache, resp, t) ==
    IF resp.transport = "error"
    THEN [out |-> Raise("NetworkError"), cache |-> c]
    ELSE LET h == HandleResponse(resp)
         IN  IF h.kind = "raise"
             THEN [out |-> h, cache |-> c]
             ELSE [out |-> h,
                   cache |-> IF ShouldCache(use_cache, h.value)
                             THEN CacheSet(c, Key("verify", id), ModelDump(h.value),
                                           [ttl |-> CacheTTL], t)
                             ELSE c]

\* verify_request_async up to the await inside verify_credential_async
VerifyRequestAsyncStart(c, headers, verify_signature, t) ==
    LET info == ExtractCredentialInfo(headers)
        local == LocalChecks(info, verify_signature, t)
    IN  IF local # None
        THEN [done |-> TRUE, out |-> local, cache |-> c]
        ELSE VerifyCredentialAsyncStart(c, info.credential_id.data, TRUE, t)

\* load_async up to `await self._fetch_credential_async()`
LoadAsyncStart(c, hd, id, force, t) ==
    LET cached == IF force THEN None ELSE CacheGetValue(c, CacheKey(id), t)
        c1 == IF force THEN c ELSE CacheAfterGet(c, CacheKey(id), t)
        h1 == IF cached # None
              THEN [credential_data |-> FromDump(cached), status |-> "active"]
              ELSE hd
    IN  IF ServedFromCache(hd, cached, t)
        THEN [done |-> TRUE, out |-> Return(h1.credential_data), handle |-> h1, cache |-> c1]
        ELSE [done |-> FALSE, out |-> None, handle |-> h1, cache |-> c1]

\* load_async from the await on
LoadAsyncResume(c, hd, id, resp, t) ==
    IF resp.transport = "error"
    THEN [out |-> Raise("NetworkError"), handle |-> hd, cache |-> c]
    ELSE LET r == HandleVerifyResponse(resp)
         IN  IF r.kind = "raise"
             THEN [out |-> r, handle |-> hd, cache |-> c]
             ELSE LET u == UpdateFromResult(hd, c, id, r.value, t)
                  IN  [out |-> IF u.raised # None THEN u.raised
                               ELSE IF u.handle.credential_data = None
                               THEN Raise("CredentialInvalidError")
                               ELSE Return(u.handle.credential_data),
                       handle |-> u.handle, cache |-> u.cache]

Suspended == "suspended" \in DOMAIN calls

AsyncOthers == <<now, hist, reported, Watch, answers>>

AwaitVerifyRequest(headers, method, url, body, verify_signature) ==
    /\ ~Suspended
    /\ LET s == VerifyRequestAsyncStart(cache, headers, verify_signature, now)
           call == [op |-> "verify_request_async", headers |-> headers, method |-> method,
                    url |-> url, body |-> body, verify_signature |-> verify_signature,
                    start |-> [cache |-> cache, handle |-> handles[Racing], now |-> now]]
       IN  /\ cache' = s.cache
           /\ calls' = IF s.done THEN calls ELSE [lock |-> None, suspended |-> call]
           /\ last' = IF s.done
                      THEN call @@ [resp |-> None, out |-> s.out, remote |-> 0]
                      ELSE [op |-> "await", call |-> call]
    /\ UNCHANGED <<handles, AsyncOthers>>

ResumeVerifyRequest(resp) ==
    /\ Suspended
    /\ calls.suspended.op = "verify_request_async"
    /\ LET call == calls.suspended
           id == HeaderGet(call.headers, "x-agentid-credential").data
           r == VerifyCredentialAsyncResume(cache, id, TRUE, resp, now)
       IN  /\ cache' = r.cache
           /\ last' = call @@ [resp |-> resp, out |-> r.out, remote |-> 1]
    /\ calls' = NoCalls
    /\ UNCHANGED <<handles, AsyncOthers>>

AwaitLoad(force) ==
    /\ ~Suspended
    /\ LET s == LoadAsyncStart(cache, handles[Racing], CredentialOf(Racing), force, now)
           call == [op |-> "load_async", force |-> force,
                    start |-> [cache |-> cache, handle |-> handles[Racing], now |-> now]]
       IN  /\ cache' = s.cache
           /\ handles' = [handles EXCEPT ![Racing] = s.handle]
           /\ calls' = IF s.done THEN calls ELSE [lock |-> None, suspended |-> call]
           /\ last' = IF s.done
                      THEN call @@ [resp |-> None, out |-> s.out, remote |-> 0]
                      ELSE [op |-> "await", call |-> call]
    /\ UNCHANGED AsyncOthers

ResumeLoad(resp) ==
    /\ Suspended
    /\ calls.suspended.op = "load_async"
    /\ LET call == calls.suspended
           r == LoadAsyncResume(cache, handles[Racing], CredentialOf(Racing), resp, now)
       IN  /\ cache' = r.cache
           /\ handles' = [handles EXCEPT ![Racing] = r.handle]
           /\ last' = call @@ [resp |-> resp, out |-> r.out, remote |-> 1]
    /\ calls' = NoCalls
    /\ UNCHANGED AsyncOthers

\* the answers a coroutine is resumed with
AsyncResponses(id) ==
    RequestResponses(id)
    \cup {Response(429, "7", NotJson),
          Response(200, "absent", ObjectBody("true", "NONE", None)),
          Response(200, "absent", ObjectBody("true", "NONE",
             [credential_id |-> id, agent_name |-> "agent_a", valid_until |-> 2]))}

InitAsync ==
    /\ InitObjects
    /\ calls = NoCalls
    /\ conn = NewSubscriber(TRUE)
    /\ last = NoOp

NextAsync ==
    \/ \E cred \in {None, [data |-> "cred_X"]},
          ts \in {None, [data |-> Str(now)], [data |-> Str(now - 2)]},
          verify_signature \in BOOLEAN :
          AwaitVerifyRequest(HeaderDict(cred, ts, [data |-> "bogus=="], TRUE), "GET",
                             "https://svc/a", None, verify_signature)
    \/ \E resp \in AsyncResponses("cred_X") : ResumeVerifyRequest(resp)
    \/ \E force \in BOOLEAN : AwaitLoad(force)
    \/ \E resp \in AsyncResponses("cred_X") : ResumeLoad(resp)
    \/ Tick

SpecAsync == InitAsync /\ [][NextAsync]_vars

\* AgentCredential.request and request_async on the handle Racing, whose
\* auto_refresh is set at construction (calls.auto_refresh); the coroutine is
\* run with no other task scheduled at its await

\* load_async run from start to end
LoadAsync(c, hd, id, force, resp, t) ==
    LET s == LoadAsyncStart(c, hd, id, force, t)
    IN  IF s.done
        THEN [out |-> s.out, remote |-> 0, handle |-> s.handle, cache |-> s.cache]
        ELSE LoadAsyncResume(s.cache, s.handle, id, resp, t) @@ [remote |-> 1]

\* request() never loading first
LoadsFirstNever(hd, auto_refresh, t) == FALSE

\* `if not self.is_loaded or (self.auto_refresh and self.needs_refresh):`
LoadsFirst(hd, auto_refresh, t) == ~IsLoaded(hd) \/ (auto_refresh /\ NeedsRefresh(hd, t))

\* request and request_async: what is done in order (events), the outcome,
\* the handle and the cache afterwards; svc is what the service answers, or
\* "error" when the transport to it fails
Request(async, c, hd, id, auto_refresh, signing_secret, method, url, body, nonce, resp, svc, t) ==
    LET loads == LoadsFirst(hd, auto_refresh, t)
        r == IF async THEN LoadAsync(c, hd, id, FALSE, resp, t)
             ELSE Load(c, hd, id, FALSE, resp, t)
        hd1 == IF loads THEN r.handle ELSE hd
        c1 == IF loads THEN r.cache ELSE c
        loaded == IF loads THEN <<[ev |-> "load", out |-> r.out, remote |-> r.remote]>>
                  ELSE <<>>
        sent == [ev |-> "send", method |-> method, url |-> url,
                 headers |-> SignRequest(id, signing_secret, method, url, body, nonce,
                                         ClockReading(t, 0)),
                 is_loaded |-> IsLoaded(hd1)]
    IN  IF loads /\ r.out.kind = "raise"
        THEN [out |-> r.out, events |-> loaded, handle |-> hd1, cache |-> c1]
        ELSE [out |-> IF svc = "error" THEN Raise("httpx.RequestError") ELSE Return(svc),
              events |-> loaded \o <<sent>>, handle |-> hd1, cache |-> c1]

RequestCall(async, body, resp, svc) ==
    \E r \in {Request(async, cache, handles[Racing], CredentialOf(Racing), calls.auto_refresh,
                      [data |-> "k1"], "GET", "https://svc/a", body, "n1", resp, svc, now)} :
        /\ cache' = r.cache
        /\ handles' = [handles EXCEPT ![Racing] = r.handle]
        /\ last' = [op |-> "request", async |-> async, before |-> handles[Racing],
                    auto_refresh |-> calls.auto_refresh, at |-> now,
                    out |-> r.out, events |-> r.events]
        /\ UNCHANGED <<now, hist, reported, Watch, answers, calls>>

InitSend ==
    /\ InitObjects
    /\ calls \in {[lock |-> None, auto_refresh |-> b] : b \in BOOLEAN}
    /\ conn = NewSubscriber(TRUE)
    /\ last = NoOp

\* the handle sends requests while a second handle of the credential loads
NextSend ==
    \/ \E async \in BOOLEAN, body \in {None, [data |-> "{}"]},
          resp \in RaceResponses("cred_X"), svc \in {"200", "error"} :
          RequestCall(async, body, resp, svc)
    \/ \E resp \in OtherResponses("cred_X") : LoadCall("h2", FALSE, resp)
    \/ Tick

SpecSend == InitSend /\ [][NextSend]_vars

\* integrations/fastapi.py: AgentIDMiddleware.dispatch

\* AgentIDConfig; min_trust_score is None or [num |-> n], policy is None or the
\* callable, given by what it does when called: returns true, returns false, raises
AgentIDConfig(required, min_trust_score, required_permissions, exclude_paths, policy) ==
    [required |-> required, min_trust_score |-> min_trust_score,
     required_permissions |-> required_permissions, exclude_paths |-> exclude_paths,
     policy |-> policy]

\* paths are sequences of characters, as the resources of check_permission are
\* str.rstrip("/")
RECURSIVE RStripSlash(_)
RStripSlash(s) ==
    IF s # <<>> /\ s[Len(s)] = "/" THEN RStripSlash(SubSeq(s, 1, Len(s) - 1)) ELSE s

\* str.startswith
StartsWith(s, prefix) == Len(prefix) <= Len(s) /\ SubSeq(s, 1, Len(prefix)) = prefix

\* AgentIDMiddleware._is_excluded
IsExcluded(path, exclude_paths) ==
    \E excluded \in exclude_paths :
        path = excluded \/ StartsWith(path, RStripSlash(excluded) \o <<"/">>)

\* the exceptions of exceptions.py, all subclasses of AgentIDError
AgentIDErrors ==
    {"AgentIDError", "CredentialNotFoundError", "CredentialExpiredError",
     "CredentialRevokedError", "CredentialInvalidError", "AuthenticationError",
     "RateLimitError", "NetworkError", "SignatureError"}

JSONResponse(status_code, code) == [kind |-> "response", status_code |-> status_code, code |-> code]
CallNext == [kind |-> "forwarded"]
Escapes(exc) == [kind |-> "escapes", exc |-> exc]

\* the loop over required_permissions: the first denial, or None
FirstDenied(required_permissions, permissions, path, platform) ==
    LET denied == {i \in DOMAIN required_permissions :
                      ~CheckPermission(permissions, path, required_permissions[i],
                                       None, platform).granted}
    IN  IF denied = {} THEN None
        ELSE [required |-> required_permissions[CHOOSE i \in denied :
                                                   \A j \in denied : i <= j]]

\* dispatch skipping the permission check
PermissionsCheckedNever(config, result) == FALSE

\* `if self.config.required_permissions and result.credential:`
PermissionsChecked(config, result) ==
    config.required_permissions # <<>> /\ result.credential # None

\* dispatch from the trust-score check on, for a result with valid=true
Authorize(config, result, path, platform) ==
    IF /\ config.min_trust_score # None
       /\ \/ result.trust_score = None
          \/ result.trust_score.num < config.min_trust_score.num
    THEN JSONResponse(403, "INSUFFICIENT_TRUST_SCORE")
    ELSE IF /\ PermissionsChecked(config, result)
            /\ FirstDenied(config.required_permissions, result.credential.permissions,
                           path, platform) # None
    THEN JSONResponse(403, "PERMISSION_DENIED")
    ELSE IF config.policy # None /\ result.credential # None
    THEN CASE config.policy.does = "raises" -> JSONResponse(500, "POLICY_ERROR")
           [] config.policy.does = "false" -> JSONResponse(403, "POLICY_DENIED")
           [] OTHER -> CallNext
    ELSE CallNext

\* AgentIDMiddleware.dispatch; v is what verify_request_async returns or raises
Dispatch(config, path, v, platform) ==
    IF IsExcluded(path, config.exclude_paths) THEN CallNext
    ELSE IF v.kind = "raise" /\ v.exc \notin AgentIDErrors THEN Escapes(v.exc)
    ELSE IF v.kind = "raise" /\ config.required THEN JSONResponse(500, "INTERNAL_ERROR")
    ELSE IF v.kind = "raise" THEN CallNext
    ELSE IF ~v.value.valid
    THEN IF config.required
         THEN JSONResponse(401, IF v.value.error_code = "NONE" THEN "INVALID_CREDENTIAL"
                                ELSE v.value.error_code)
         ELSE CallNext
    ELSE Authorize(config, v.value, path, platform)

DispatchCall ==
    /\ last.op = "request_arrives"
    /\ last' = [last EXCEPT !.op = "dispatch"]
                  @@ [out |-> Dispatch(last.config, last.path, last.v, last.platform)]
    /\ UNCHANGED <<now, cache, Others, hist>>

\* what verify_request_async gives the middleware: a result with valid=true
\* with or without a credential payload and a trust score, a rejection, or
\* an exception of the SDK or of a library
VerifyOutcomes ==
    {Return([valid |-> TRUE, credential |-> c, error_code |-> "NONE", trust_score |-> s]) :
        c \in {None, [permissions |-> <<>>],
               [permissions |-> <<Permission(<<"*">>, {"read"}, None)>>],
               [permissions |-> <<Permission(<<"*">>, {"*"}, None)>>]},
        s \in {None, [num |-> 0], [num |-> 1]}}
    \cup {Return([valid |-> FALSE, credential |-> None, error_code |-> code,
                  trust_score |-> None]) :
            code \in {"NONE", "MISSING_CREDENTIAL", "CREDENTIAL_REVOKED"}}
    \cup {Raise(exc) : exc \in {"NetworkError", "RateLimitError", "AgentIDError",
                                "ValidationError", "OverflowError"}}

DispatchConfigs ==
    {AgentIDConfig(required, min, perms, excl, policy) :
        required \in BOOLEAN, min \in {None, [num |-> 1]},
        perms \in {<<>>, <<"read">>, <<"read", "write">>},
        excl \in {{}, {<<"/", "h", "/">>}},
        policy \in {None, [does |-> "true"], [does |-> "false"], [does |-> "raises"]}}

InitDispatch ==
    /\ InitObjects
    /\ calls = NoCalls
    /\ conn = NewSubscriber(TRUE)
    /\ last \in {[op |-> "request_arrives", config |-> config, path |-> path, v |-> v,
                  platform |-> "posix"] :
                    config \in DispatchConfigs,
                    path \in {<<"/", "d">>, <<"/", "h">>, <<"/", "h", "/", "l">>},
                    v \in VerifyOutcomes}

NextDispatch == DispatchCall

SpecDispatch == InitDispatch /\ [][NextDispatch]_vars

\* cache.py: get_global_cache called by several threads; calls.global is the
\* module variable _global_cache (None or the instance, numbered in the order
\* of construction), calls.lock is _cache_lock, calls.constructed counts the
\* CredentialCache objects constructed and calls.returned collects what the
\* calls returned
GlobalCalls ==
    [lock |-> None, of |-> [t \in Threads |-> Idle], global |-> None, constructed |-> 0,
     returned |-> {}]

\* _cache_lock never excluding anybody
CacheLockFreeAlways(lock) == TRUE

\* `with _cache_lock:` can be entered
CacheLockFree(lock) == lock = None

GlobalStep(t, pc) == [calls EXCEPT !.of[t] = [pc |-> pc]]

GetGlobalCacheCalled(t) ==
    /\ calls.of[t].pc = "idle"
    /\ calls' = GlobalStep(t, "first_check")
    /\ last' = [op |-> "get_global_cache_called", thread |-> t]
    /\ UNCHANGED <<now, cache, hist, handles, reported, Watch, answers>>

\* `if _global_cache is None:` outside the lock
GlobalFirstCheck(t) ==
    /\ calls.of[t].pc = "first_check"
    /\ calls' = GlobalStep(t, IF calls.global = None THEN "acquire" ELSE "return")
    /\ last' = [op |-> "first_check", thread |-> t, found |-> calls.global]
    /\ UNCHANGED <<now, cache, hist, handles, reported, Watch, answers>>

\* `with _cache_lock:`
GlobalAcquire(t) ==
    /\ calls.of[t].pc = "acquire"
    /\ CacheLockFree(calls.lock)
    /\ calls' = [GlobalStep(t, "second_check") EXCEPT !.lock = [by |-> t]]
    /\ last' = [op |-> "acquire", thread |-> t]
    /\ UNCHANGED <<now, cache, hist, handles, reported, Watch, answers>>

\* `if _global_cache is None:` inside the lock
GlobalSecondCheck(t) ==
    /\ calls.of[t].pc = "second_check"
    /\ calls' = GlobalStep(t, IF calls.global = None THEN "construct" ELSE "release")
    /\ last' = [op |-> "second_check", thread |-> t, found |-> calls.global]
    /\ UNCHANGED <<now, cache, hist, handles, reported, Watch, answers>>

\* `_global_cache = CredentialCache()`
GlobalConstruct(t) ==
    /\ calls.of[t].pc = "construct"
    /\ calls' = [GlobalStep(t, "release") EXCEPT
                    !.constructed = calls.constructed + 1,
                    !.global = [instance |-> calls.constructed + 1]]
    /\ last' = [op |-> "construct", thread |-> t, instance |-> calls.constructed + 1]
    /\ UNCHANGED <<now, cache, hist, handles, reported, Watch, answers>>

\* leaving the `with` block
GlobalRelease(t) ==
    /\ calls.of[t].pc = "release"
    /\ calls' = [GlobalStep(t, "return") EXCEPT !.lock = None]
    /\ last' = [op |-> "release", thread |-> t]
    /\ UNCHANGED <<now, cache, hist, handles, reported, Watch, answers>>

\* `return _global_cache`
GlobalReturn(t) ==
    /\ calls.of[t].pc = "return"
    /\ calls' = [GlobalStep(t, "idle") EXCEPT !.returned = calls.returned \cup {calls.global}]
    /\ last' = [op |-> "get_global_cache", thread |-> t, result |-> calls.global,
                concurrent |-> \E u \in Threads \ {t} : calls.of[u].pc # "idle"]
    /\ UNCHANGED <<now, cache, hist, handles, reported, Watch, answers>>

InitGlobal ==
    /\ InitObjects
    /\ calls = GlobalCalls
    /\ conn = NewSubscriber(TRUE)
    /\ last = NoOp

NextGlobal ==
    \/ \E t \in Threads : GetGlobalCacheCalled(t)
    \/ \E t \in Threads : GlobalFirstCheck(t)
    \/ \E t \in Threads : GlobalAcquire(t)
    \/ \E t \in Threads : GlobalSecondCheck(t)
    \/ \E t \in Threads : GlobalConstruct(t)
    \/ \E t \in Threads : GlobalRelease(t)
    \/ \E t \in Threads : GlobalReturn(t)
    \/ Tick

SpecGlobal == InitGlobal /\ [][NextGlobal]_vars

\* verify_credential of a service thread and the revocation watch of the same
\* process on one cache: the verification is in flight between its cache
\* lookup and its cache write (calls.suspended, with the answer of the
\* authority once it has arrived), and the watch handles the revocation event
\* of the same credential at any moment; verify_credential has the statements
\* of verify_credential_async
VerifyStarts(id) ==
    /\ ~Suspended
    /\ LET s == VerifyCredentialAsyncStart(cache, id, TRUE, now)
           call == [op |-> "verify_credential", id |-> id, answer |-> None]
       IN  /\ cache' = s.cache
           /\ calls' = IF s.done THEN calls ELSE [lock |-> None, suspended |-> call]
           /\ last' = IF s.done
                      THEN call @@ [out |-> s.out, wrote |-> FALSE]
                      ELSE [op |-> "verify_starts", call |-> call]
    /\ UNCHANGED <<handles, AsyncOthers>>

\* the answer of the authority arrives; it was obtained before the event when
\* the event has not been handled yet
AuthorityAnswers(resp) ==
    /\ Suspended
    /\ calls.suspended.op = "verify_credential"
    /\ calls.suspended.answer = None
    /\ calls' = [calls EXCEPT !.suspended.answer =
                    [resp |-> resp, before_event |-> ~IsRevoked(revoked, calls.suspended.id)]]
    /\ last' = [op |-> "authority_answers", resp |-> resp]
    /\ UNCHANGED <<cache, handles, AsyncOthers>>

\* _handle_response, the cache write and the return
VerifyResumes ==
    /\ Suspended
    /\ calls.suspended.op = "verify_credential"
    /\ calls.suspended.answer # None
    /\ LET call == calls.suspended
           r == VerifyCredentialAsyncResume(cache, call.id, TRUE, call.answer.resp, now)
       IN  /\ cache' = r.cache
           /\ last' = call @@ [out |-> r.out,
                               wrote |-> r.out.kind = "return" /\ ShouldCache(TRUE, r.out.value)]
    /\ calls' = NoCalls
    /\ UNCHANGED <<handles, AsyncOthers>>

\* the watch handles the revocation event of a credential (no callback)
RevocationEventHandled(id) ==
    /\ ~IsRevoked(revoked, id)
    /\ \E r \in {HandleRevocationEvent([revoked |-> revoked, cache |-> cache, log |-> <<>>],
                                       id, None)} :
        /\ revoked' = r.revoked
        /\ cache' = r.cache
        /\ consumed' = consumed \cup {id}
        /\ last' = [op |-> "revocation_event", id |-> id, in_flight |-> Suspended]
    /\ UNCHANGED <<cbLog, subState, lastCheck, sources, conn, WatchOthers>>

InitInFlight ==
    /\ InitObjects
    /\ calls = NoCalls
    /\ conn = NewSubscriber(TRUE)
    /\ last = NoOp

NextInFlight ==
    \/ VerifyStarts("cred_X")
    \/ \E resp \in AsyncResponses("cred_X") : AuthorityAnswers(resp)
    \/ VerifyResumes
    \/ RevocationEventHandled("cred_X")
    \/ Tick

SpecInFlight == InitInFlight /\ [][NextInFlight]_vars

\* check_revocations against an authority that records revocations while
\* the poll is under way: calls.recorded is what the authority has recorded
\* and when, calls.inflight is the answer on its way back with the instant at
\* which the authority evaluated the query

\* a set of revocations as the list of a response
RECURSIVE RevocationList(_)
RevocationList(rs) ==
    IF rs = {} THEN <<>>
    ELSE LET r == CHOOSE x \in rs : \A y \in rs : x.at <= y.at
         IN  <<[credential_id |-> [data |-> r.id]]>> \o RevocationList(rs \ {r})

PollCalls == [lock |-> None, recorded |-> {}, inflight |-> None]

\* the authority records the revocation of a credential
AuthorityRecords(id) ==
    /\ \A r \in calls.recorded : r.id # id
    /\ calls' = [calls EXCEPT !.recorded = calls.recorded \cup {[id |-> id, at |-> now]}]
    /\ last' = [op |-> "authority_records", id |-> id]
    /\ UNCHANGED <<now, cache, hist, handles, reported, Watch, answers>>

\* the answers to `GET /revocations?since=...`: the revocations recorded at
\* or after the cursor, the same with an entry that lacks credential_id in
\* front, a JSON body that is no object, an error status, no answer
PollAnswers(since) ==
    LET due == RevocationList({r \in calls.recorded : r.at >= since})
    IN  {[transport |-> "ok", status |-> 200, body |-> [kind |-> "object", revocations |-> due]],
         [transport |-> "ok", status |-> 200,
          body |-> [kind |-> "object", revocations |-> <<[credential_id |-> None]>> \o due]],
         [transport |-> "ok", status |-> 200, body |-> NonObject],
         [transport |-> "ok", status |-> 500, body |-> NotJson],
         TransportError}

\* `response = httpx.get(url, params=params)` is sent and evaluated
PollSent(resp) ==
    /\ calls.inflight = None
    /\ calls' = [calls EXCEPT !.inflight = [resp |-> resp, evaluated |-> now]]
    /\ last' = [op |-> "poll_sent", since |-> lastCheck]
    /\ UNCHANGED <<now, cache, hist, handles, reported, Watch, answers>>

\* the rest of check_revocations_sync, from the arrival of the response
PollReceived ==
    /\ calls.inflight # None
    /\ \E r \in {CheckRevocations([revoked |-> revoked, cache |-> cache, log |-> <<>>],
                                  lastCheck, calls.inflight.resp, None, now)} :
        /\ revoked' = r.st.revoked
        /\ cache' = r.st.cache
        /\ lastCheck' = r.cursor
        /\ consumed' = r.st.revoked
        /\ last' = [op |-> "poll_received", resp |-> calls.inflight.resp,
                    evaluated |-> calls.inflight.evaluated, cursor_before |-> lastCheck,
                    error |-> r.error]
    /\ calls' = [calls EXCEPT !.inflight = None]
    /\ UNCHANGED <<now, hist, handles, reported, answers, cbLog, subState, sources, conn>>

InitPoll ==
    /\ InitObjects
    /\ calls = PollCalls
    /\ conn = NewSubscriber(TRUE)
    /\ last = NoOp

NextPoll ==
    \/ \E id \in {"cred_X", "cred_Y"} : AuthorityRecords(id)
    \/ \E resp \in PollAnswers(lastCheck) : PollSent(resp)
    \/ PollReceived
    \/ Tick

SpecPoll == InitPoll /\ [][NextPoll]_vars

\* two handles of one credential, a verifier and a revocation watch on one
\* cache; the authority answers a load with a payload that expires sooner or
\* later, with valid=true and no payload, with a refusal or not at all
HandleResponses(id) ==
    {TransportError,
     Response(200, "absent", ObjectBody("true", "NONE", None)),
     Response(200, "absent", ObjectBody("true", "NONE",
        [credential_id |-> id, agent_name |-> "agent_a", valid_until |-> 2])),
     Response(200, "absent", ObjectBody("true", "NONE",
        [credential_id |-> id, agent_name |-> "agent_b", valid_until |-> MaxTime + 2]))}
    \cup {Response(200, "absent", ObjectBody("false", code, None)) :
            code \in {"CREDENTIAL_EXPIRED", "CREDENTIAL_REVOKED", "POLICY_DENIED"}}

\* the poll response that announces the revocation of one credential
RevocationOf(id) ==
    [transport |-> "ok", status |-> 200,
     body |-> [kind |-> "object", revocations |-> <<[credential_id |-> [data |-> id]]>>]]

NextHandle ==
    \/ \E force \in BOOLEAN, resp \in HandleResponses("cred_X") : LoadCall("h1", force, resp)
    \/ \E resp \in OtherResponses("cred_X") : LoadCall("h2", FALSE, resp)
    \/ \E resp \in OtherResponses("cred_X") : VerifyCredentialCall("cred_X", TRUE, resp)
    \/ CheckRevocationsCall(RevocationOf("cred_X"), None)
    \/ Tick

SpecHandle == Init /\ [][NextHandle]_vars

\* one handle loading against an authority that may answer anything
NextLoad ==
    \/ \E force \in BOOLEAN, resp \in ResponsesOf({[credential_id |-> "cred_X",
                agent_name |-> "agent_a", valid_until |-> MaxTime + 2]}) :
          LoadCall("h1", force, resp)
    \/ Tick

SpecLoad == Init /\ [][NextLoad]_vars

\* two handles of one credential sharing the cache; the authority answers
\* with a payload that expires soon, later or far beyond the cap of the cache
\* entry, with a revocation or not at all
ShareResponses(id) ==
    {TransportError,
     Response(200, "absent", ObjectBody("false", "CREDENTIAL_REVOKED", None))}
    \cup {Response(200, "absent", ObjectBody("true", "NONE",
              [credential_id |-> id, agent_name |-> "agent_a", valid_until |-> u])) :
            u \in {2, MaxTime + 2, MaxTime + CredCacheCap + 1}}

NextShare ==
    \/ \E force \in BOOLEAN, resp \in ShareResponses("cred_X") : LoadCall("h1", force, resp)
    \/ \E resp \in OtherResponses("cred_X") : LoadCall("h2", FALSE, resp)
    \/ Tick

SpecShare == Init /\ [][NextShare]_vars

\* signatures checked with verify_request_signature at any instant, and signed
\* requests checked by a verifier, for timestamps around the present
NextFreshness ==
    \/ \E q \in RequestShapes, secret \in Secrets, max_age_seconds \in MaxAges, half \in Halves :
          \E timestamp \in (now - SignatureMaxAge - 1)..(now + SignatureMaxAge + 1) :
          \E signature \in {"bogus==", SignatureOf[q, timestamp, "cred_X", secret]} :
             VerifyRequestSignatureCall(signature, q, timestamp, "cred_X", secret,
                                        max_age_seconds, half)
    \/ \E ts \in TimestampHeaders(now), q \in {x \in RequestShapes : x.lower} :
          \E sig \in SignatureHeaders(q, ts, [data |-> "cred_X"]) :
             VerifyAnyRequest([data |-> "cred_X"], ts, sig, q, TRUE)
    \/ Tick

SpecFreshness == Init /\ [][NextFreshness]_vars

\* check_permission on permission lists of bare strings and structured
\* permissions, with and without conditions, for requests with and without context
SomeConditions ==
    {None,
     PermissionConditions([num |-> 5], None, None, None, FALSE),
     PermissionConditions(None, None, [start |-> "09:00", end |-> "17:00"], [num |-> 60], TRUE)}

SomePermissions ==
    {StringPermission(s) : s \in {"*", "read", "Read", "write"}}
    \cup {Permission(r, a, c) : r \in {<<"d", "/", "*">>, <<"a">>},
                                a \in {{"read"}, {"*"}}, c \in SomeConditions}

PermissionLists == UNION {[1..n -> SomePermissions] : n \in 0..MaxPerms}

SomeContexts ==
    {None, Context(None, None, FALSE), Context([num |-> 5], None, FALSE),
     Context([num |-> 6], None, FALSE), Context(None, None, TRUE)}

InitPermission ==
    /\ InitObjects
    /\ calls = NoCalls
    /\ conn = NewSubscriber(TRUE)
    /\ last \in {Arguments(permissions, resource, action, context, platform) :
                    permissions \in PermissionLists,
                    resource \in {<<"d", "/", "a">>, <<"a">>},
                    action \in {"read", "delete"}, context \in SomeContexts,
                    platform \in Platforms}

\* the call is made once, with the arguments drawn at the start
CallCheckPermission ==
    /\ last.op = "arguments"
    /\ CheckPermissionCall(last.permissions, last.resource, last.action, last.context,
                           last.platform)

NextPermission == CallCheckPermission

SpecPermission == InitPermission /\ [][NextPermission]_vars

\* check_permission on one structured permission without conditions, for
\* patterns and resources of at most MaxGlob characters, on both platforms
MaxGlob == 2

RECURSIVE Strings(_, _)
Strings(alphabet, n) ==
    IF n = 0 THEN {<<>>}
    ELSE Strings(alphabet, n - 1)
         \cup {<<ch>> \o str : ch \in alphabet, str \in Strings(alphabet, n - 1)}

InitGlob ==
    /\ InitObjects
    /\ calls = NoCalls
    /\ conn = NewSubscriber(TRUE)
    /\ last \in {Arguments(<<Permission(pattern, actions, None)>>, resource, "read",
                            None, platform) :
                    pattern \in Strings({"d", "D", "/", "*", "?"}, MaxGlob),
                    actions \in {{"read"}, {"write"}, {"*"}},
                    resource \in Strings({"d", "D", "/"}, MaxGlob),
                    platform \in Platforms}

NextGlob == CallCheckPermission

SpecGlob == InitGlob /\ [][NextGlob]_vars

\* check_permission on one applicable structured permission with an amount
\* limit of at most MaxAmount and an allow-list, for contexts with amounts
\* up to MaxAmount + 1
MaxAmount == 1

Optional(S) == {None} \cup S

InitConditions ==
    /\ InitObjects
    /\ calls = NoCalls
    /\ conn = NewSubscriber(TRUE)
    /\ last \in {Arguments(<<Permission(<<"a">>, {"*"},
                                         PermissionConditions(limit, regions, None, None, FALSE))>>,
                            <<"a">>, "read", Context(amount, region, other), "posix") :
                    limit \in Optional({[num |-> n] : n \in 0..MaxAmount}),
                    regions \in Optional({[list |-> {}], [list |-> {"US"}]}),
                    amount \in Optional({[num |-> n] : n \in 0..(MaxAmount + 1)}),
                    region \in Optional({[data |-> "US"], [data |-> "EU"]}),
                    other \in BOOLEAN}

NextConditions == CallCheckPermission

SpecConditions == InitConditions /\ [][NextConditions]_vars

-----------------------------------------------------------------------------
(* C7: get(k) returns v exactly when the latest set(k, v, ttl) has not been
   followed by delete(k) or clear() and fewer than ttl (default_ttl when ttl
   is omitted) time units have passed since that set; otherwise it returns
   not-found, and an expired entry met by get is removed from the store. *)
ExpectedGet(k) ==
    IF hist[k].set /\ now - hist[k].at < hist[k].ttl THEN hist[k].value ELSE None

C7_GetReturnsLatestLiveSet ==
    last.op = "get" =>
        /\ last.ret = ExpectedGet(last.key)
        /\ (last.ret = None => last.key \notin DOMAIN cache)

\* get met an entry whose ttl had run out, returned not-found and removed it
C7_Witness ==
    /\ last.op = "get"
    /\ last.held
    /\ last.ret = None
    /\ hist[last.key].set
    /\ hist[last.key].ttl > 0
    /\ last.key \notin DOMAIN cache

-----------------------------------------------------------------------------
(* C1: with verify_signature enabled, verify_request goes on to resolve the
   credential only if the X-AgentID-Signature header equals the signature
   computed over the request's method, URL, body, timestamp and credential
   id (under some signing secret, or in the secret-less mode); any other
   non-empty signature value is rejected. *)
ExpectedSignatures(r) ==
    LET info == ExtractCredentialInfo(r.headers)
    IN  {GenerateRequestSignature(r.method, r.url, r.body,
                                  ParseInt(info.timestamp.data).val,
                                  info.credential_id.data, s) : s \in Secrets}

C1_SignatureIsVerified ==
    (last.op = "verify_request" /\ last.verify_signature /\ last.resolved) =>
        ExtractCredentialInfo(last.headers).signature.data \in ExpectedSignatures(last)

(* C2: with verify_signature enabled the local failures are decided in a
   fixed order: missing or empty credential header -> MISSING_CREDENTIAL;
   else missing or empty timestamp or signature header -> MISSING_SIGNATURE;
   else non-integer timestamp -> INVALID_TIMESTAMP; else stale timestamp ->
   SIGNATURE_EXPIRED; each time without a remote call, without raising and
   without touching the cache. *)
IsIntegerNumeral(str) == str \in Numerals \cup {HugeNumeral}
IsStale(str, t) ==
    str = HugeNumeral \/ Abs(t - NumeralValue[str]) > SignatureMaxAge

ExpectedLocalFailure(headers, t) ==
    LET info == ExtractCredentialInfo(headers)
    IN  IF ~Truthy(info.credential_id) THEN "MISSING_CREDENTIAL"
        ELSE IF ~Truthy(info.timestamp) \/ ~Truthy(info.signature) THEN "MISSING_SIGNATURE"
        ELSE IF ~IsIntegerNumeral(info.timestamp.data) THEN "INVALID_TIMESTAMP"
        ELSE IF IsStale(info.timestamp.data, t) THEN "SIGNATURE_EXPIRED"
        ELSE "NONE"

C2_LocalFailuresInOrder ==
    (last.op = "verify_request" /\ last.verify_signature
        /\ ExpectedLocalFailure(last.headers, now) # "NONE") =>
        /\ last.out = Rejected(ExpectedLocalFailure(last.headers, now))
        /\ last.remote = 0
        /\ ~last.cacheChanged

-----------------------------------------------------------------------------
(* Verification calls: what the last call was about *)

IsVerifyCall(l) ==
    l.op = "verify_credential" \/ (l.op = "verify_request" /\ l.resolved)
CallId(l) == IF l.op = "verify_credential" THEN l.id ELSE l.id.data
CallUsesCache(l) == IF l.op = "verify_credential" THEN l.use_cache ELSE TRUE

\* the call asked the authority and got no valid result out of it
IsNegativeCall(l) ==
    /\ IsVerifyCall(l)
    /\ l.remote = 1
    /\ (l.out.kind = "raise" \/ ~l.out.value.valid)

VerifyEntriesValid ==
    \A k \in DOMAIN cache : k[1] = "verify" => FromDump(cache[k].value).valid

(* C3 as stated: every entry under verify:<id> holds a result with valid=true,
   and after a verify_credential call whose remote answer has valid=false or
   that raises, the next call for that id goes to the remote authority again
   (the cache has no live entry for the id). *)
C3_NextCallGoesRemote ==
    /\ VerifyEntriesValid
    /\ IsNegativeCall(last) =>
          CacheGetValue(cache, Key("verify", CallId(last)), now) = None

(* C3 amended: every entry under verify:<id> holds a result with valid=true;
   a call whose remote answer has valid=false or that raises writes nothing
   to the cache (the cache is left as its own cache lookup left it); and when
   that call used the cache, the next call for the id goes to the remote
   authority again. *)
C3_NegativeStep ==
    IsNegativeCall(last') =>
        LET key == Key("verify", CallId(last'))
        IN  /\ cache' = IF CallUsesCache(last') THEN CacheAfterGet(cache, key, now)
                        ELSE cache
            /\ CallUsesCache(last') => CacheGetValue(cache', key, now') = None

C3_NegativeNeverCached == [](VerifyEntriesValid) /\ [][C3_NegativeStep]_vars

\* a revoked answer came while another id's valid result was cached, and left it
C3_Witness ==
    /\ IsNegativeCall(last)
    /\ last.out.kind = "return"
    /\ last.out.value.error_code = "CREDENTIAL_REVOKED"
    /\ CallUsesCache(last)
    /\ DOMAIN cache # {}
    /\ Key("verify", CallId(last)) \notin DOMAIN cache

(* C8: when use_cache is on and the cache holds an unexpired verify:<id> entry,
   verify_credential makes no remote call and returns exactly the stored
   result; and any result returned without a remote call was given by the
   authority for that id at most cache_ttl earlier. *)
C8_CacheHitIsRecentAnswer ==
    IsVerifyCall(last) =>
        /\ (CallUsesCache(last) /\ last.held # None) =>
              /\ last.remote = 0
              /\ last.out = Return(FromDump(last.held))
        /\ last.remote = 0 =>
              /\ last.out.kind = "return"
              /\ \E a \in answers :
                    /\ a.id = CallId(last)
                    /\ a.result = last.out.value
                    /\ now - a.at <= CacheTTL

\* a result served from the cache some time after the authority gave it
C8_Witness ==
    /\ IsVerifyCall(last)
    /\ last.remote = 0
    /\ last.out.value.credential # None
    /\ \E a \in answers : a.id = CallId(last) /\ a.result = last.out.value /\ a.at < now

(* C9 as stated: for every remote answer that reports the credential not
   found, expired, revoked or otherwise invalid, with any HTTP status,
   verify_request returns a result with valid=false and an error code. *)
ReportsCredentialProblem(resp) ==
    /\ resp # None
    /\ resp.transport = "ok"
    /\ resp.body.kind = "object"
    /\ resp.body.valid = "false"

C9_AlwaysStructuredWithCode ==
    (last.op = "verify_request" /\ ReportsCredentialProblem(last.resp)) =>
        /\ last.out.kind = "return"
        /\ ~last.out.value.valid
        /\ last.out.value.error_code # "NONE"

(* C9 amended: for every remote answer with an HTTP status other than 429
   that reports the credential not found, expired, revoked or otherwise
   invalid, verify_request returns a result with valid=false and the error
   code the authority gave (none when it gave none); verify_request raises
   only when the transport failed, the status was 429 or the body was
   malformed. *)
IsInfrastructureFailure(resp) ==
    \/ resp.transport = "error"
    \/ resp.status = 429
    \/ resp.body.kind # "object"
    \/ resp.body.valid = "missing"

C9_NeverRaisesForCredentialState ==
    last.op = "verify_request" =>
        /\ (ReportsCredentialProblem(last.resp) /\ last.resp.status # 429) =>
              last.out = Rejected(last.resp.body.error_code)
        /\ last.out.kind = "raise" =>
              last.resp # None /\ IsInfrastructureFailure(last.resp)

\* a 404 answer saying CREDENTIAL_NOT_FOUND came back as a result, not an exception
C9_Witness ==
    /\ last.op = "verify_request"
    /\ ReportsCredentialProblem(last.resp)
    /\ last.resp.status = 404
    /\ last.out = Rejected("CREDENTIAL_NOT_FOUND")

-----------------------------------------------------------------------------
(* C4: consuming a revocation event for id X, from the push channel or from a
   poll response, adds X to the revoked-set and deletes `verify:X` and
   `cred:X` before on_revocation is invoked; afterwards is_revoked is true
   exactly for the ids of the events consumed so far; an exception of the
   callback is swallowed: the events that follow in the same batch are
   handled all the same and the receive loop keeps running. *)

IsWatchOp(l) == l.op \in {"push", "poll"}

CallbackSawCleanState(s) ==
    /\ IsRevoked(s.revoked, s.credential_id)
    /\ Key("verify", s.credential_id) \notin s.keys
    /\ Key("cred", s.credential_id) \notin s.keys

C4_EventHandledBeforeCallback ==
    /\ \A i \in 1..Len(cbLog) : CallbackSawCleanState(cbLog[i])
    /\ \A id \in EventIds : IsRevoked(revoked, id) <=> id \in consumed
    /\ IsWatchOp(last) =>
        /\ \A id \in Range(last.events) :
              Key("verify", id) \notin DOMAIN cache /\ Key("cred", id) \notin DOMAIN cache
        /\ last.cb # None => [i \in 1..Len(cbLog) |-> cbLog[i].credential_id] = last.events
        /\ (last.op = "push" /\ last.msg.kind # "nonobject") => sources = last.running
        /\ last.op = "poll" => sources = last.running

\* a poll response with events for a cached credential and for another one,
\* the callback raising on the first of them
C4_Witness ==
    /\ last.op = "poll"
    /\ "cred_X" \in last.held
    /\ Len(cbLog) = 2
    /\ cbLog[1].raised
    /\ cbLog[2].credential_id = "cred_Y"
    /\ IsRevoked(revoked, "cred_X")
    /\ IsRevoked(revoked, "cred_Y")
    /\ ~IsRevoked(revoked, "")

-----------------------------------------------------------------------------
(* C5: after a revocation event for a credential id has been consumed, the
   shared cache holds neither `verify:<id>` nor the payload load() cached for
   that id, and a non-forced load() of that credential that follows is not
   served from the cache. *)

EventFor(l, id) == IsWatchOp(l) /\ id \in Range(l.events)

C5_NothingCachedAfterEvent ==
    \A id \in Ids : EventFor(last, id) =>
        Key("verify", id) \notin DOMAIN cache /\ CacheKey(id) \notin DOMAIN cache

C5_LoadAfterEvent ==
    \A id \in Ids :
        (EventFor(last, id) /\ last'.op = "load" /\ last'.id = id /\ ~last'.force)
            => last'.remote = 1

C5_RevocationEvictsCredential ==
    [](C5_NothingCachedAfterEvent) /\ [][C5_LoadAfterEvent]_vars

-----------------------------------------------------------------------------
(* C6: once a load on a handle has raised CredentialRevokedError,
   CredentialExpiredError or CredentialInvalidError, is_active of that handle
   is false, and stays false whatever is loaded, until a remote fetch answers
   valid=true again. *)

C6_InactiveOnceReported ==
    \A h \in Handles : reported[h] # None => ~IsActive(handles[h], now)

-----------------------------------------------------------------------------
(* C10: load maps each answer of the authority to one outcome, by precedence:
   transport failure -> NetworkError; 429 -> RateLimitError; 401 ->
   AuthenticationError; 404 or error_code CREDENTIAL_NOT_FOUND ->
   CredentialNotFoundError; another non-success status -> AgentIDError with
   the remote error code; success with valid=false -> the Expired, Revoked or
   Invalid error by error code; and no such outcome writes a payload to the
   cache. *)

BodyField(resp, f) == IF resp.body.kind = "object" THEN resp.body[f] ELSE "NONE"

ExpectedLoadError(resp) ==
    IF resp.transport = "error" THEN "NetworkError"
    ELSE IF resp.status = 429 THEN "RateLimitError"
    ELSE IF resp.status = 401 THEN "AuthenticationError"
    ELSE IF resp.status = 404 \/ BodyField(resp, "error_code") = "CREDENTIAL_NOT_FOUND"
    THEN "CredentialNotFoundError"
    ELSE IF ~IsSuccess(resp.status) THEN "AgentIDError"
    ELSE IF BodyField(resp, "valid") = "false"
    THEN IF resp.body.error_code = "CREDENTIAL_EXPIRED" THEN "CredentialExpiredError"
         ELSE IF resp.body.error_code = "CREDENTIAL_REVOKED" THEN "CredentialRevokedError"
         ELSE "CredentialInvalidError"
    ELSE "unconstrained"

C10_LoadErrorPrecedence ==
    (last.op = "load" /\ last.remote = 1) =>
        /\ ExpectedLoadError(last.resp) # "unconstrained" =>
              /\ last.out.kind = "raise"
              /\ last.out.exc = ExpectedLoadError(last.resp)
              /\ (last.out.exc = "AgentIDError" /\ last.resp.body.kind = "object") =>
                    last.out = RaiseDetails("AgentIDError", last.resp.body.error_code)
        /\ last.out.kind = "raise" => ~last.written

-----------------------------------------------------------------------------
(* C11: load() makes no remote call exactly when force is false, the cache
   holds an unexpired payload under `credential:<id>` and that payload is at
   least refresh_threshold from its valid_until; the handle, a new one
   included, then adopts and returns the cached payload. In every other case
   load() makes exactly one remote call. *)

IsLoadCall(l) == l.op = "load"

FreshInCache(l, t) ==
    /\ ~l.force
    /\ l.held # None
    /\ l.held.dict.valid_until - t >= RefreshThreshold

C11_NoRemoteCallIffFreshInCache ==
    IsLoadCall(last) =>
        /\ last.remote \in {0, 1}
        /\ last.remote = 0 <=> FreshInCache(last, now)
        /\ last.remote = 0 =>
              /\ last.out = Return(last.held.dict)
              /\ handles[last.handle].credential_data = last.held.dict
              /\ handles[last.handle].status = "active"

\* a handle that had never loaded adopts, without a remote call, the payload
\* the other handle fetched
C11_Witness ==
    /\ IsLoadCall(last)
    /\ last.handle = "h2"
    /\ last.before = NewHandle
    /\ last.remote = 0
    /\ handles["h1"].credential_data # None
    /\ handles["h2"].credential_data.agent_name = handles["h1"].credential_data.agent_name

-----------------------------------------------------------------------------
(* C12: after a load that receives valid=true with a payload the handle holds
   that payload with status active and the cache holds it under
   `credential:<id>` with ttl min(time to expiry, 3600 s); no live entry
   under `credential:<id>` lasts beyond the valid_until of its payload or
   beyond 3600 s after its fetch, and load() never returns a cached payload
   at or after its valid_until. *)

GotPayload(l) ==
    /\ IsLoadCall(l)
    /\ l.remote = 1
    /\ l.out.kind = "return"

TimeLeft(p, t) == IF p.valid_until > t THEN p.valid_until - t ELSE 0

ExpectedTTL(p, t) == IF TimeLeft(p, t) < CredCacheCap THEN TimeLeft(p, t) ELSE CredCacheCap

C12_PayloadCachedUntilExpiryOrCap ==
    /\ GotPayload(last) =>
          /\ last.out.value = last.resp.body.credential
          /\ handles[last.handle] = [credential_data |-> last.out.value, status |-> "active"]
          /\ cache[CacheKey(last.id)]
                = CacheEntry(ModelDump(last.out.value), now + ExpectedTTL(last.out.value, now))
    /\ \A id \in Ids :
          (CacheKey(id) \in DOMAIN cache /\ ~IsExpired(cache[CacheKey(id)], now)) =>
              /\ cache[CacheKey(id)].expires_at <= cache[CacheKey(id)].value.dict.valid_until
              /\ cache[CacheKey(id)].expires_at <= now + CredCacheCap
    /\ (IsLoadCall(last) /\ last.remote = 0) => now < last.out.value.valid_until

\* a payload valid far beyond the cap is fetched and cached for the cap only
C12_Witness ==
    /\ GotPayload(last)
    /\ last.out.value.valid_until > now + CredCacheCap
    /\ cache[CacheKey(last.id)].expires_at = now + CredCacheCap

-----------------------------------------------------------------------------
(* C13: freshness is symmetric and comes before the signature: whenever
   |now - ts| > m, in the past or in the future and whatever the signature,
   verify_request_signature raises SignatureError and the verifier returns
   SIGNATURE_EXPIRED; a timestamp with |now - ts| <= m is never rejected as
   stale. *)

\* |t + half/2 - ts| > m, in half units
TooOld(t, half, ts, m) ==
    \/ (2 * t + half) - 2 * ts > 2 * m
    \/ 2 * ts - (2 * t + half) > 2 * m

ReachesFreshnessCheck(l) ==
    /\ l.op = "verify_request"
    /\ l.verify_signature
    /\ ExpectedLocalFailure(l.headers, now) \in {"SIGNATURE_EXPIRED", "NONE"}

C13_StaleExactlyWhenTooOld ==
    /\ last.op = "verify_request_signature" =>
          (last.out = Raise("SignatureError")
              <=> TooOld(now, last.half, last.timestamp, last.max_age_seconds))
    /\ ReachesFreshnessCheck(last) =>
          (last.out = Rejected("SIGNATURE_EXPIRED")
              <=> ExpectedLocalFailure(last.headers, now) = "SIGNATURE_EXPIRED")

-----------------------------------------------------------------------------
(* C14: check_permission walks the permission list in order and the first
   applicable entry fixes the result, later entries never being consulted:
   it grants if that entry is an applicable string entry or an applicable
   structured entry that passes its enforced conditions, and it denies if
   that entry is an applicable structured entry that fails an enforced
   condition, even when a later entry would grant.  When no entry is
   applicable the result is deny with the reason "No permission for
   <action> on <resource>". *)
IsCheckPermission(l) == l.op = "check_permission"

IsStringEntry(perm) == "str" \in DOMAIN perm

Applicable(perm, l) ==
    IF IsStringEntry(perm) THEN perm.str = "*" \/ perm.str = l.action
    ELSE /\ FnMatch(l.resource, perm.resource, l.platform)
         /\ (l.action \in perm.actions \/ "*" \in perm.actions)

FailsEnforcedCondition(perm, l) ==
    /\ ~IsStringEntry(perm)
    /\ perm.conditions # None
    /\ ContextTruthy(l.context)
    /\ ConditionsVerdict(perm.conditions, l.context) # Granted

ApplicableEntries(l) == {i \in 1..Len(l.permissions) : Applicable(l.permissions[i], l)}

FirstApplicable(l) ==
    CHOOSE i \in ApplicableEntries(l) : \A j \in ApplicableEntries(l) : i <= j

C14_FirstDecisiveEntryWins ==
    IsCheckPermission(last) =>
        IF ApplicableEntries(last) = {}
        THEN last.out = Denied(NoPermissionReason(last.action, last.resource))
        ELSE IF FailsEnforcedCondition(last.permissions[FirstApplicable(last)], last)
        THEN /\ last.out.granted = FALSE
             /\ last.out # Denied(NoPermissionReason(last.action, last.resource))
        ELSE last.out = Granted

\* a structured entry that fails its amount limit, followed by an entry that
\* would grant: the call denies
C14_Witness ==
    /\ IsCheckPermission(last)
    /\ Len(last.permissions) = 2
    /\ ApplicableEntries(last) = {1, 2}
    /\ FailsEnforcedCondition(last.permissions[1], last)
    /\ ~FailsEnforcedCondition(last.permissions[2], last)
    /\ last.out.granted = FALSE

-----------------------------------------------------------------------------
(* C15: a bare string permission grants exactly when it is "*" or equals the
   requested action character for character, whatever the resource is; any
   other string entry is skipped, so the result is that of the rest of the
   list, and a string entry never denies. *)
StartsWithString(l) ==
    IsCheckPermission(l) /\ l.permissions # <<>> /\ IsStringEntry(l.permissions[1])

C15_StringGrantsOnWildcardOrAction ==
    StartsWithString(last) =>
        IF last.permissions[1].str = "*" \/ last.permissions[1].str = last.action
        THEN last.out = Granted
        ELSE last.out = CheckPermission(Tail(last.permissions), last.resource, last.action,
                                        last.context, last.platform)

\* the string "read" alone grants the action "read" on a resource
C15_Witness ==
    /\ IsCheckPermission(last)
    /\ last.permissions = <<StringPermission("read")>>
    /\ last.action = "read"
    /\ last.resource = <<"d", "/", "a">>
    /\ last.out = Granted

\* a string that differs from the action only in case is skipped
C15_SkippedWitness ==
    /\ IsCheckPermission(last)
    /\ last.permissions = <<StringPermission("Read")>>
    /\ last.action = "read"
    /\ last.out = Denied(NoPermissionReason("read", last.resource))

-----------------------------------------------------------------------------
(* C18: when the first applicable entry is a structured permission with no
   conditions, or with conditions while no context is supplied,
   check_permission grants; and the condition kinds that are not enforced
   (time window, rate limit, approval flag and the other fields the function
   never reads) never change the result, for any context: the result is the
   one obtained with these fields left out. *)
WithoutUnenforced(perm) ==
    IF IsStringEntry(perm) \/ perm.conditions = None THEN perm
    ELSE Permission(perm.resource, perm.actions,
                    PermissionConditions(perm.conditions.max_transaction_amount,
                                         perm.conditions.allowed_regions,
                                         None, None, FALSE))

Stripped(permissions) == [i \in 1..Len(permissions) |-> WithoutUnenforced(permissions[i])]

NoContext(ctx) == ctx = None \/ ctx = Context(None, None, FALSE)

C18_UnenforcedConditionsNeverDeny ==
    IsCheckPermission(last) =>
        /\ last.out = CheckPermission(Stripped(last.permissions), last.resource,
                                      last.action, last.context, last.platform)
        /\ \/ ApplicableEntries(last) = {}
           \/ LET perm == last.permissions[FirstApplicable(last)]
              IN  (~IsStringEntry(perm) /\ (perm.conditions = None \/ NoContext(last.context)))
                      => last.out = Granted

\* an entry whose conditions ask for approval, a time window and a rate limit
\* grants a request made with a context
C18_Witness ==
    /\ IsCheckPermission(last)
    /\ Len(last.permissions) = 1
    /\ ApplicableEntries(last) = {1}
    /\ ~IsStringEntry(last.permissions[1])
    /\ last.permissions[1].conditions # None
    /\ last.permissions[1].conditions.requires_approval
    /\ last.permissions[1].conditions.valid_hours # None
    /\ ContextTruthy(last.context)
    /\ last.out = Granted

-----------------------------------------------------------------------------
(* C16: a structured permission is applicable exactly when the resource
   matches its resource pattern and the action is in its actions or its
   actions contain "*"; the match is anchored to the whole string and
   case-sensitive, `*` stands for any run of characters, empty or not, with
   or without '/', and every other character of the pattern matches only
   itself. *)
RECURSIVE StarGlob(_, _)
StarGlob(name, pat) ==
    IF pat = <<>> THEN name = <<>>
    ELSE IF Head(pat) = "*"
    THEN StarGlob(name, Tail(pat)) \/ (name # <<>> /\ StarGlob(Tail(name), pat))
    ELSE name # <<>> /\ Head(pat) = Head(name) /\ StarGlob(Tail(name), Tail(pat))

OneStructuredEntry(l) ==
    IsCheckPermission(l) /\ Len(l.permissions) = 1 /\ ~IsStringEntry(l.permissions[1])

C16_ApplicableIffStarGlobAndAction ==
    (OneStructuredEntry(last) /\ last.permissions[1].conditions = None) =>
        LET perm == last.permissions[1]
        IN  (last.out = Granted) <=>
                (/\ StarGlob(last.resource, perm.resource)
                 /\ (last.action \in perm.actions \/ "*" \in perm.actions))

-----------------------------------------------------------------------------
(* C17: for an applicable structured permission evaluated with a context,
   check_permission denies whenever context.amount > max_transaction_amount,
   for every limit and every amount, with a reason quoting both numbers; it
   denies whenever context.region is present and not in allowed_regions, for
   every allow-list; and when neither holds it grants. *)
ExceedsLimit(conditions, ctx) ==
    /\ conditions.max_transaction_amount # None
    /\ ctx.amount # None
    /\ ctx.amount.num > conditions.max_transaction_amount.num

OutsideRegions(conditions, ctx) ==
    /\ conditions.allowed_regions # None
    /\ ctx.region # None
    /\ ctx.region.data \notin conditions.allowed_regions.list

C17_DeniesOverLimitOrOutsideRegions ==
    (/\ OneStructuredEntry(last)
     /\ ApplicableEntries(last) = {1}
     /\ last.permissions[1].conditions # None
     /\ ContextTruthy(last.context)) =>
        LET conditions == last.permissions[1].conditions
        IN  IF ExceedsLimit(conditions, last.context)
            THEN last.out = Denied(AmountReason(last.context.amount.num,
                                                conditions.max_transaction_amount.num))
            ELSE IF OutsideRegions(conditions, last.context)
            THEN last.out = Denied(RegionReason(last.context.region.data))
            ELSE last.out = Granted

-----------------------------------------------------------------------------
(* C19: the watch follows disconnected -> connecting -> connected, and when
   an established connection fails, connected -> reconnecting -> connected
   or disconnected: with auto_reconnect on it retries, with a delay that
   starts at initial_reconnect_delay and grows by reconnect_backoff, at most
   max_reconnect_attempts times; with auto_reconnect off it becomes
   disconnected. *)
ClaimedTransitions ==
    {<<"disconnected", "connecting">>, <<"connecting", "connected">>,
     <<"connected", "reconnecting">>, <<"reconnecting", "connected">>,
     <<"reconnecting", "disconnected">>, <<"connected", "disconnected">>,
     <<"connecting", "disconnected">>}

\* the step in which an established push connection fails while the watch is on
EstablishedChannelFails ==
    /\ last'.op \in {"recv_failed", "keepalive_failed"}
    /\ subState = "connected"
    /\ ~conn.stop

C19_ReconnectsAfterFailure ==
    [][/\ subState' # subState => <<subState, subState'>> \in ClaimedTransitions
       /\ EstablishedChannelFails =>
              subState' = IF conn.auto_reconnect THEN "reconnecting" ELSE "disconnected"]_vars

\* what the code does instead: the state `reconnecting` is never entered and
\* the reconnect fields never leave their initial values
C19_NeverReconnecting ==
    /\ subState # "reconnecting"
    /\ conn.attempts = 0
    /\ conn.delay = DefaultReconnectDelay

-----------------------------------------------------------------------------
(* C20: connect() tries the push channel first and, on any failure of the
   push channel, whether it could not be established or failed after it was
   established, falls back to a poll loop that calls the revocations
   endpoint every poll_interval; polling is never started while the push
   channel works. *)
PushChannelFails ==
    /\ last'.op \in {"refused", "recv_failed", "keepalive_failed"}
    /\ ~conn.stop

PollingStarts == "poll" \notin sources /\ "poll" \in sources'

C20_FallsBackToPolling ==
    [][/\ PushChannelFails => "poll" \in sources'
       /\ PollingStarts => "push" \notin sources']_vars

\* the part that holds: a push channel that cannot be established leads to
\* the poll loop, whose next turn is due poll_interval later
C20_RefusedFallsBack ==
    [][(last'.op = "refused" /\ ~conn.stop) =>
          ("poll" \in sources' /\ conn'.next_poll = now + PollInterval)]_vars

-----------------------------------------------------------------------------
(* C21: in every reachable state of one subscriber, under any interleaving of
   connect(), start_polling(), disconnect() and channel events, at most one
   revocation source is active: the push listener, the asynchronous poll
   loop and the background poll thread never run at the same instant. *)
\* a listener that found _stop_event set, or a thread that found the state
\* not CONNECTED, would end at its next loop test: it is not counted
ActiveSources ==
    {k \in sources : \/ k = "push" /\ ~conn.stop
                     \/ k = "poll"
                     \/ k = "thread" /\ (subState = "connected" \/ conn.thread = "calling")}

C21_AtMostOneSource == Cardinality(ActiveSources) <= 1

-----------------------------------------------------------------------------
(* C22: after disconnect() has returned, no on_revocation callback is invoked
   any more on behalf of the session that was disconnected, be it a push
   listener, an asynchronous poll loop or a background poll thread, whatever
   it was doing when disconnect() was called. *)
\* a source's step taken while the state is DISCONNECTED belongs to a session
\* that disconnect() has ended: nothing else sets that state after a start
StepOfEndedSession(l) ==
    l.op \in {"push", "thread_response"} /\ l.state = "disconnected"

C22_NoCallbackAfterDisconnect == StepOfEndedSession(last) => cbLog = <<>>

-----------------------------------------------------------------------------
(* C23: disconnect() called in any state leaves the watch disconnected, with
   reconnect attempts 0, reconnect delay initial_reconnect_delay and no task
   handle held, and keeps the revoked set; a second disconnect() changes no
   state and fires no connectivity callback. *)
AfterDisconnect(state, c) ==
    /\ state = "disconnected"
    /\ c.stop
    /\ c.attempts = 0
    /\ c.delay = DefaultReconnectDelay
    /\ ~c.poll_task

C23_DisconnectResetsAndIsIdempotent ==
    last.op = "disconnect" =>
        /\ AfterDisconnect(subState, conn)
        /\ revoked = last.before.revoked
        /\ AfterDisconnect(last.before.state, last.before.conn) =>
               /\ subState = last.before.state
               /\ conn = last.before.conn
               /\ last.notified = <<>>

\* a second disconnect() of a watch that has seen a revocation
C23_Witness ==
    /\ last.op = "disconnect"
    /\ AfterDisconnect(last.before.state, last.before.conn)
    /\ last.notified = <<>>
    /\ revoked # {}

\* a disconnect() that cancels a poll loop and reports the loss of connectivity
C23_FirstWitness ==
    /\ last.op = "disconnect"
    /\ last.before.state = "connected"
    /\ last.before.conn.poll_task
    /\ last.notified = <<FALSE>>
    /\ "poll" \notin sources

-----------------------------------------------------------------------------
(* C24: every cache operation is atomic under concurrent access: for any
   interleaving of get, set, delete, clear, cleanup_expired, size and get_ttl
   calls from several threads the results are those of the same calls made
   one after the other, in the order in which they took the lock; no update
   is lost, no call fails, and get returns a value that one set stored whole. *)
\* what the call returns and leaves in the store when it runs alone on store c at time t
Alone(call, c, t) ==
    CASE call.op = "get" ->
            [result |-> Return(CacheGetValue(c, call.key, t)),
             cache |-> CacheAfterGet(c, call.key, t)]
      [] call.op = "set" ->
            [result |-> Return(None), cache |-> CacheSet(c, call.key, call.value, call.arg, t)]
      [] call.op = "delete" ->
            [result |-> Return(call.key \in DOMAIN c), cache |-> CacheDelete(c, call.key)]
      [] call.op = "clear" -> [result |-> Return(None), cache |-> CacheClear(c)]
      [] call.op = "cleanup_expired" ->
            [result |-> Return(Cardinality(ExpiredKeys(c, t))), cache |-> CacheCleanup(c, t)]
      [] call.op = "size" -> [result |-> Return(CacheSize(c)), cache |-> c]
      [] call.op = "get_ttl" -> [result |-> Return(CacheGetTTL(c, call.key, t)), cache |-> c]

C24_CacheOperationsAreAtomic ==
    \A t \in Threads :
        calls.of[t].pc = "done" =>
            /\ calls.of[t].result = Alone(calls.of[t], calls.of[t].seen, calls.of[t].at).result
            /\ cache = Alone(calls.of[t], calls.of[t].seen, calls.of[t].at).cache

\* a get found an expired entry and removed it while the other thread, which
\* wants to delete the same key, waits for the lock
C24_Witness ==
    /\ calls.of["t1"].pc = "done"
    /\ calls.of["t1"].op = "get"
    /\ calls.of["t1"].key \in DOMAIN calls.of["t1"].seen
    /\ calls.of["t1"].key \notin DOMAIN cache
    /\ calls.of["t2"].pc = "called"
    /\ calls.of["t2"].op = "delete"
    /\ calls.of["t2"].key = calls.of["t1"].key

-----------------------------------------------------------------------------
(* C25: cache entries are value-copied in and out, so that no caller holds an
   alias to a stored entry: changing the object passed to set after the
   call, or the object returned by get, does not change what a later get
   for that key returns. *)
C25_GetReturnsWhatSetStored ==
    (last.op = "alias_get" /\ last.ret # None) =>
        calls.contents[last.ret.ref] = calls.stored[last.key]

\* what the code guarantees instead: get returns the very object given to set
C25_GetReturnsTheObjectSet ==
    [][\A k \in ClientKeys, o \in Objects :
          (last'.op = "alias_get" /\ last'.key = k /\ last'.ret = Ref(o))
              => (k \in DOMAIN cache /\ cache[k].value = Ref(o))]_vars

-----------------------------------------------------------------------------
(* C26: concurrent reloads of one handle are a benign race *)

RaceOver == \A t \in Threads : calls.of[t].pc = "done"

\* the payload the authority gave thread t, None when it gave none
PayloadGiven(t) ==
    IF "result" \in DOMAIN calls.of[t] /\ calls.of[t].result.valid
    THEN calls.of[t].result.credential ELSE None

\* the handle and the cache entry are what one load that got this payload at
\* instant s leaves behind
StemsFrom(payload, s) ==
    LET key == CacheKey(CredentialOf(Racing))
        hd == [credential_data |-> payload, status |-> "active"]
    IN  /\ handles[Racing] = hd
        /\ key \in DOMAIN cache
        /\ cache[key] = CacheSet(cache, key, ModelDump(payload),
                                 [ttl |-> Min(TimeToExpiry(hd, s), CredCacheCap)], s)[key]

\* C26 (for two loads that both got a payload): once both callers have
\* returned, the handle's status, its payload and the cached entry are those
\* that one of the two answers alone leaves behind, and each caller was
\* returned a payload that one of the answers carried.
C26_RaceIsBenign ==
    (RaceOver /\ \A t \in Threads : PayloadGiven(t) # None)
        => /\ \E t \in Threads, s \in 0..now : StemsFrom(PayloadGiven(t), s)
           /\ \A t \in Threads :
                /\ calls.of[t].out.kind = "return"
                /\ \E u \in Threads : calls.of[t].out.value = PayloadGiven(u)
-----------------------------------------------------------------------------
(* C27: the signature is deterministic and changes with each argument *)

\* the bytes of a body that are hashed: none for None, "" and b""
BodyBytes(body) == IF Truthy(body) THEN body.data ELSE ""

\* the key a secret signs with: none for None and "", else the padded key
SigningKey(secret) == IF Truthy(secret) THEN [key |-> HmacKey(secret.data)] ELSE None

\* two values of argument f that generate_request_signature takes for one:
\* methods that differ in case only, bodies with the same bytes, secrets that
\* give the same key
SameToSigner(f, x, y) ==
    CASE f = "method" -> Upper(x) = Upper(y)
      [] f = "body" -> BodyBytes(x) = BodyBytes(y)
      [] f = "secret" -> SigningKey(x) = SigningKey(y)
      [] OTHER -> x = y

SignedTwice == last.op = "generate_request_signature"

\* C27 as stated: identical arguments give identical signatures, and two
\* argument lists that differ in one of method, URL, body, credential id or
\* secret give different signatures, whatever the two values are.
C27_EveryDistinctValueChangesSignature ==
    SignedTwice =>
        /\ last.a = last.b => last.sa = last.sb
        /\ Cardinality(Varied(last.a, last.b)) = 1 => last.sa # last.sb

\* C27 (amended): identical arguments give identical signatures, and two
\* argument lists that differ in one argument give different signatures unless
\* the two values are the same to the signer (methods equal up to case,
\* bodies with equal bytes where None is the empty body, secrets giving the
\* same key where None is the empty secret), in which case they give the same.
C27_SignatureChangesWithEachArgument ==
    SignedTwice =>
        /\ last.a = last.b => last.sa = last.sb
        /\ \A f \in Varied(last.a, last.b) :
              (last.sa = last.sb) <=> SameToSigner(f, last.a[f], last.b[f])

C27_Witness ==
    /\ SignedTwice
    /\ Varied(last.a, last.b) = {"credential_id"}
    /\ last.sa # last.sb
-----------------------------------------------------------------------------
(* C28: what a RequestSigner signs, verify_request_signature accepts *)

\* a signed request was checked within the freshness window
VerifiedInWindow ==
    /\ last.op = "verify_signed"
    /\ Abs(IntOfTime(last.clock) - last.timestamp) <= last.max_age_seconds

\* C28 as stated: within the freshness window the result is True for the
\* body that was signed and False for every other body.
C28_AnyAlteredBodyIsRejected ==
    VerifiedInWindow => last.out = Return(last.body = last.request.body)

\* C28 (amended): within the freshness window the result is True when the
\* body has the bytes of the body that was signed, where None, "" and b""
\* all are the empty body, and False when any byte differs.
C28_RoundTripAcceptsAndAlteredBytesAreRejected ==
    VerifiedInWindow => last.out = Return(BodyBytes(last.body) = BodyBytes(last.request.body))

C28_Witness ==
    /\ VerifiedInWindow
    /\ IntOfTime(last.clock) > last.timestamp
    /\ last.request.secret # None
    /\ last.body = last.request.body
    /\ last.out = Return(TRUE)

C28_AlteredWitness ==
    /\ VerifiedInWindow
    /\ Truthy(last.request.body) /\ Truthy(last.body)
    /\ last.body.data # last.request.body.data
    /\ last.out = Return(FALSE)
-----------------------------------------------------------------------------
(* C29: the asynchronous calls decide as the synchronous ones *)

\* a coroutine has returned or raised at the clock reading it was started at
AsyncCompleted(op) == last.op = op /\ last.start.now = now

\* the answer the synchronous call is given: the one the coroutine got
SameAnswer == IF last.resp = None THEN TransportError ELSE last.resp

\* C29: a verify_request_async or load_async that completes at the clock
\* reading it started at returns or raises what verify_request or load does
\* from the same cache, handle and remote answer, makes as many remote calls
\* and leaves the same cache and the same handle.
C29_AsyncDecidesAsSync ==
    /\ AsyncCompleted("verify_request_async") =>
          LET r == VerifyRequest(last.start.cache, last.headers, last.method, last.url,
                                 last.body, last.verify_signature, SameAnswer, last.start.now)
          IN  /\ last.out = r.out
              /\ last.remote = r.remote
              /\ cache = r.cache
              /\ handles[Racing] = last.start.handle
    /\ AsyncCompleted("load_async") =>
          LET r == Load(last.start.cache, last.start.handle, CredentialOf(Racing), last.force,
                        SameAnswer, last.start.now)
          IN  /\ last.out = r.out
              /\ last.remote = r.remote
              /\ cache = r.cache
              /\ handles[Racing] = r.handle

C29_Witness ==
    /\ AsyncCompleted("verify_request_async")
    /\ last.remote = 1
    /\ last.out.kind = "return" /\ last.out.value.valid
    /\ cache # last.start.cache
    /\ Key("credential", "cred_X") \in DOMAIN cache

C29_LoadWitness ==
    /\ AsyncCompleted("load_async")
    /\ last.remote = 1
    /\ last.out.kind = "return"
    /\ ~last.force /\ Key("credential", "cred_X") \in DOMAIN last.start.cache
-----------------------------------------------------------------------------
(* C30: request() and request_async() load before they send *)

Requested == last.op = "request"

Sends(events) == {i \in DOMAIN events : events[i].ev = "send"}

\* C30: no request is sent by an unloaded handle; when the handle is unloaded,
\* or auto_refresh is on and needs_refresh is true, the first thing done is a
\* load, the send comes after it, and when that load raises, its error is the
\* outcome and nothing is sent.
C30_LoadsBeforeSending ==
    Requested =>
        /\ \A i \in Sends(last.events) : last.events[i].is_loaded
        /\ (~IsLoaded(last.before) \/ (last.auto_refresh /\ NeedsRefresh(last.before, last.at)))
              => /\ last.events # <<>>
                 /\ last.events[1].ev = "load"
                 /\ Sends(last.events) \subseteq {2}
                 /\ last.events[1].out.kind = "raise"
                       => Sends(last.events) = {} /\ last.out = last.events[1].out
                 /\ last.events[1].out.kind = "return" => Sends(last.events) = {2}

\* a loaded handle with auto_refresh refreshes, the authority is unreachable,
\* and nothing is sent
C30_Witness ==
    /\ Requested
    /\ IsLoaded(last.before) /\ last.auto_refresh
    /\ NeedsRefresh(last.before, last.at)
    /\ last.events[1].out.kind = "raise"
    /\ Len(last.events) = 1

C30_SentAfterLoadWitness ==
    /\ Requested
    /\ ~IsLoaded(last.before)
    /\ Len(last.events) = 2
    /\ last.events[1].remote = 1
    /\ last.events[2].ev = "send"
-----------------------------------------------------------------------------
(* C31: what the middleware lets through, and the classes of its answers *)

\* a request on a non-excluded path went through a middleware with required=True
DispatchedRequired ==
    /\ last.op = "dispatch"
    /\ last.config.required
    /\ ~IsExcluded(last.path, last.config.exclude_paths)

\* verification returned valid
VerifiedValid == last.v.kind = "return" /\ last.v.value.valid

TrustSuffices ==
    \/ last.config.min_trust_score = None
    \/ /\ last.v.value.trust_score # None
       /\ last.v.value.trust_score.num >= last.config.min_trust_score.num

\* every required permission is granted by the permissions of the credential
EveryPermissionGranted ==
    \A i \in DOMAIN last.config.required_permissions :
        /\ last.v.value.credential # None
        /\ CheckPermission(last.v.value.credential.permissions, last.path,
                           last.config.required_permissions[i], None, last.platform).granted

\* the policy callback, when set, was called and returned true
PolicyAgreed ==
    \/ last.config.policy = None
    \/ last.v.value.credential # None /\ last.config.policy.does = "true"

\* C31: with required=True on a non-excluded path the request is forwarded
\* only if verification returned valid, the trust score suffices, every
\* required permission is granted and the policy, when set, returned true;
\* otherwise the answer is 401 exactly for an invalid result, 403 for trust,
\* permission or policy, and 500 only when the verifier or the policy raised.
C31_ForwardsOnlyWhenAuthorized ==
    DispatchedRequired =>
        /\ last.out = CallNext
              => VerifiedValid /\ TrustSuffices /\ EveryPermissionGranted /\ PolicyAgreed
        /\ last.out.kind = "response" /\ last.out.status_code = 401
              => last.v.kind = "return" /\ ~last.v.value.valid
        /\ last.out.kind = "response" /\ last.out.status_code = 403
              => VerifiedValid
                 /\ ~(TrustSuffices /\ EveryPermissionGranted /\ PolicyAgreed)
        /\ last.out.kind = "response" /\ last.out.status_code = 500
              => \/ last.v.kind = "raise"
                 \/ last.config.policy # None /\ last.config.policy.does = "raises"

\* what holds of the code: the same, for results that carry a credential payload
C31_ForwardsOnlyWhenAuthorizedWithPayload ==
    (DispatchedRequired /\ (VerifiedValid => last.v.value.credential # None))
        => C31_ForwardsOnlyWhenAuthorized
-----------------------------------------------------------------------------
(* C32: get_global_cache is a thread-safe lazy singleton *)

\* C32: however the calls of the threads interleave, at most one
\* CredentialCache is constructed, none before the first call, and every call
\* returns that one instance, which is the one the module variable holds.
C32_OneGlobalCache ==
    /\ calls.constructed <= 1
    /\ calls.constructed = 0 <=> calls.global = None
    /\ calls.returned \subseteq {[instance |-> 1]}
    /\ calls.returned # {} => calls.global = [instance |-> 1]

\* a thread that found the variable empty at its first check and waited for
\* the lock finds the other thread's instance at its second check
C32_Witness ==
    /\ last.op = "second_check"
    /\ last.found = [instance |-> 1]
    /\ calls.constructed = 1

\* both threads have returned the one instance
C32_ReturnedWitness ==
    /\ last.op = "get_global_cache"
    /\ last.concurrent
    /\ calls.returned = {[instance |-> 1]}
-----------------------------------------------------------------------------
(* C33: a verification in flight cannot undo a revocation *)

\* a verification has just cached an answer that the authority gave before
\* the revocation event of the credential was handled
CachedOldAnswer ==
    /\ last.op = "verify_credential"
    /\ last.wrote
    /\ last.answer # None /\ last.answer.before_event

\* C33: once the revocation event of a credential has been handled, the cache
\* holds no verify entry of it that a verification built from an answer the
\* authority gave before the event.
C33_InFlightCannotUndoRevocation ==
    (CachedOldAnswer /\ IsRevoked(revoked, last.id))
        => Key("verify", last.id) \notin DOMAIN cache

\* what does hold: an answer cached by a verification that began after the
\* event is one the authority gave after the event
C33_LaterVerificationsUseLaterAnswers ==
    (last.op = "revocation_event" /\ ~last.in_flight)
        => Key("verify", last.id) \notin DOMAIN cache
-----------------------------------------------------------------------------
(* C34: is_connected means that somebody is listening *)

\* RevocationSubscriber.is_connected
IsConnected == subState = "connected"

\* C34: whenever the subscriber reports is_connected, a push listener, a poll
\* loop or a poll thread is running for it.
C34_ConnectedMeansListening == IsConnected => sources # {}

\* what does hold: the state is left by disconnect() only
C34_OnlyDisconnectLeavesConnected ==
    [][(IsConnected /\ subState' # "connected") => last'.op = "disconnect"]_vars
-----------------------------------------------------------------------------
(* C35: polling never skips a revocation *)

PollDone == last.op = "poll_received"

\* the revocations the authority recorded before the cursor, which no later
\* poll asks for
BehindCursor == {r \in calls.recorded : r.at < lastCheck}

\* C35: a check_revocations call that fails leaves the cursor where it was, a
\* call that succeeds moves it to an instant no later than the one at which
\* the authority evaluated the query, and so every revocation recorded
\* before the cursor has been consumed.
C35_PollingNeverSkips ==
    /\ PollDone /\ last.error # None => lastCheck = last.cursor_before
    /\ PollDone /\ last.error = None => lastCheck <= last.evaluated
    /\ calls.inflight = None => \A r \in BehindCursor : IsRevoked(revoked, r.id)

\* what does hold: a call that got no answer, an error status or a body that
\* is not JSON leaves the cursor where it was
C35_NoAnswerKeepsCursor ==
    (PollDone /\ (last.resp.transport = "error" \/ last.resp.status # 200))
        => lastCheck = last.cursor_before
-----------------------------------------------------------------------------
(* C36: a load that fails for want of an answer leaves the handle alone *)

\* the errors of a load that say nothing about the state of the credential
AnswerlessErrors ==
    {"RateLimitError", "AuthenticationError", "NetworkError", "CredentialNotFoundError"}

LoadFailedAnswerless ==
    /\ last.op = "load"
    /\ last.out.kind = "raise"
    /\ last.out.exc \in AnswerlessErrors

\* C36: a load that raises RateLimitError, AuthenticationError, NetworkError
\* or CredentialNotFoundError leaves the payload and the status of the handle,
\* and with them is_loaded and is_active, as they were before the call.
C36_FailedLoadLeavesHandle ==
    LoadFailedAnswerless =>
        /\ handles[last.handle] = last.before
        /\ IsLoaded(handles[last.handle]) = IsLoaded(last.before)
        /\ IsActive(handles[last.handle], now) = IsActive(last.before, now)

\* what does hold: such a load leaves the handle alone when it was forced or
\* found nothing in the cache
C36_FailedLoadPastCacheLeavesHandle ==
    (LoadFailedAnswerless /\ (last.force \/ last.held = None))
        => handles[last.handle] = last.before
====
